---- MODULE Spec2Model ----
(***************************************************************************)
(* A model of simulation-foundry-core: the fixed-step ODE steppers         *)
(* (euler_forward, euler_backward, runge_kutta_4), newton_raphson,         *)
(* forward_difference, gaussian_elimination and vec_norm.                  *)
(*                                                                         *)
(* One behaviour of the model is one call of one library function: Init    *)
(* draws the function and its arguments, the actions follow the function's *)
(* control flow (argument checks, one action per loop iteration, return).  *)
(*                                                                         *)
(* Numbers.  A double is modelled in two ways.  The calls of Spec carry    *)
(* extended rationals, on which arithmetic is exact; the calls of          *)
(* SpecDouble carry binary64 values, on which every operation is rounded   *)
(* as IEEE-754 rounds it.  The operators Add, Mul, Div, ... accept both    *)
(* and round as soon as one operand is a binary64 value.                   *)
(* An extended rational is a pair <<n, d>> in                              *)
(* lowest terms with d >= 0: d > 0 is the finite value n/d, <<1,0>> and    *)
(* <<-1,0>> are +inf and -inf, <<0,0>> is NaN.  Arithmetic on finite       *)
(* values is exact (no rounding); the special values follow IEEE-754       *)
(* (x/0 = +-inf, 0/0 = inf-inf = 0*inf = NaN, every comparison with NaN is *)
(* false).  Signed zeros are not distinguished.  The time arguments are    *)
(* drawn from small dyadic rationals, on which the double additions of the *)
(* time grid are exact as well.                                            *)
(*                                                                         *)
(* Indices.  C++ vectors are modelled as sequences, so the C++ element     *)
(* v[k] is the element v[k+1] of the model.  Loop counters keep their C++  *)
(* values.                                                                 *)
(***************************************************************************)
EXTENDS Integers, Sequences, FiniteSets, TLC

(***************************************************************************)
(* Natural numbers of any size: sequences of limbs in base 2^15, least     *)
(* significant first, without leading zero limbs (<<>> is 0).  They carry   *)
(* the 53-bit significands of binary64 values and their exact products.    *)
(***************************************************************************)
Base == 32768

LimbBits == 15

Max(m, n) == IF m > n THEN m ELSE n

Min(m, n) == IF m < n THEN m ELSE n

RECURSIVE BTrim(_)
BTrim(a) ==
  IF a = <<>> THEN <<>>
  ELSE IF a[Len(a)] = 0 THEN BTrim(SubSeq(a, 1, Len(a) - 1)) ELSE a

RECURSIVE BFromInt(_)
BFromInt(n) == IF n = 0 THEN <<>> ELSE <<n % Base>> \o BFromInt(n \div Base)

RECURSIVE BToInt(_)
BToInt(a) == IF a = <<>> THEN 0 ELSE a[1] + Base * BToInt(Tail(a))

BLimb(a, k) == IF k <= Len(a) THEN a[k] ELSE 0

RECURSIVE BCmpFrom(_, _, _)
BCmpFrom(a, c, k) ==
  IF k = 0 THEN 0
  ELSE IF a[k] < c[k] THEN -1
  ELSE IF a[k] > c[k] THEN 1
  ELSE BCmpFrom(a, c, k - 1)

\* -1, 0 or 1 as a < c, a = c or a > c
BCmp(a, c) ==
  IF Len(a) < Len(c) THEN -1
  ELSE IF Len(a) > Len(c) THEN 1
  ELSE BCmpFrom(a, c, Len(a))

RECURSIVE BAddFrom(_, _, _, _)
BAddFrom(a, c, k, carry) ==
  IF k > Len(a) /\ k > Len(c) THEN (IF carry = 0 THEN <<>> ELSE <<carry>>)
  ELSE LET s == BLimb(a, k) + BLimb(c, k) + carry
       IN <<s % Base>> \o BAddFrom(a, c, k + 1, s \div Base)

BAdd(a, c) == BAddFrom(a, c, 1, 0)

RECURSIVE BSubFrom(_, _, _, _)
BSubFrom(a, c, k, borrow) ==
  IF k > Len(a) THEN <<>>
  ELSE LET d == a[k] - BLimb(c, k) - borrow
       IN <<(d + Base) % Base>> \o BSubFrom(a, c, k + 1, IF d < 0 THEN 1 ELSE 0)

\* a - c for a >= c
BSub(a, c) == BTrim(BSubFrom(a, c, 1, 0))

RECURSIVE BMulSmallFrom(_, _, _, _)
BMulSmallFrom(a, m, k, carry) ==
  IF k > Len(a) THEN BFromInt(carry)
  ELSE LET p == a[k] * m + carry
       IN <<p % Base>> \o BMulSmallFrom(a, m, k + 1, p \div Base)

\* a * m for 0 <= m < Base
BMulSmall(a, m) == BTrim(BMulSmallFrom(a, m, 1, 0))

RECURSIVE BMulFrom(_, _, _)
BMulFrom(a, c, k) ==
  IF k > Len(c) THEN <<>>
  ELSE BAdd(BMulSmall(a, c[k]), <<0>> \o BMulFrom(a, c, k + 1))

BMul(a, c) == BTrim(BMulFrom(a, c, 1))

\* a * 2^k
BShl(a, k) ==
  IF a = <<>> THEN <<>>
  ELSE [j \in 1..(k \div LimbBits) |-> 0] \o BMulSmall(a, 2 ^ (k % LimbBits))

\* floor(a / 2^k)
BShr(a, k) ==
  LET q == k \div LimbBits
      r == k % LimbBits
      hi == IF q >= Len(a) THEN <<>> ELSE SubSeq(a, q + 1, Len(a))
  IN BTrim([j \in 1..Len(hi) |->
              (hi[j] \div (2 ^ r)) + (BLimb(hi, j + 1) % (2 ^ r)) * (2 ^ (LimbBits - r))]
           \o <<>>)

\* a mod 2^k is not 0
BLowBits(a, k) ==
  \/ \E j \in 1..Min(k \div LimbBits, Len(a)) : a[j] # 0
  \/ BLimb(a, (k \div LimbBits) + 1) % (2 ^ (k % LimbBits)) # 0

\* bit k of a (bit 0 is the least significant)
BBit(a, k) == (BLimb(a, (k \div LimbBits) + 1) \div (2 ^ (k % LimbBits))) % 2

RECURSIVE BitLenInt(_)
BitLenInt(n) == IF n = 0 THEN 0 ELSE 1 + BitLenInt(n \div 2)

BBitLen(a) == IF a = <<>> THEN 0 ELSE LimbBits * (Len(a) - 1) + BitLenInt(a[Len(a)])

\* The quotient limb qh, an over-estimate by at most 2, lowered until
\* c * qh <= r
RECURSIVE QFix(_, _, _)
QFix(c, r, qh) == IF BCmp(BMulSmall(c, qh), r) > 0 THEN QFix(c, r, qh - 1) ELSE qh

\* Long division by a divisor c whose top limb is at least Base / 2, one limb
\* of a per step from limb k down: <<quotient, remainder>>
\* (the test on Len(q) has TLC evaluate the accumulators at every step)
RECURSIVE BDivLimbs(_, _, _, _, _)
\* The step of BDivLimbs that puts the quotient limb qh before q and takes
\* c * qh from the running remainder r1
BDivPut(a, c, k, q, r1, qh) ==
  BDivLimbs(a, c, k - 1, <<qh>> \o q, BSub(r1, BMulSmall(c, qh)))

BDivLimbs(a, c, k, q, r) ==
  IF k = 0 \/ Len(q) < 0 THEN <<BTrim(q), r>>
  ELSE LET r1 == BTrim(<<a[k]>> \o r)
           n == Len(c)
           est == (BLimb(r1, n + 1) * Base + BLimb(r1, n)) \div c[n]
       IN BDivPut(a, c, k, q, r1, QFix(c, r1, Min(est, Base - 1)))

\* <<q, r>> with the remainder of the operands shifted by sh bits shifted back
BDivUnshift(qr, sh) == <<qr[1], BShr(qr[2], sh)>>

\* BDivMod on operands already shifted left by sh bits
BDivNormalised(an, cn, sh) == BDivUnshift(BDivLimbs(an, cn, Len(an), <<>>, <<>>), sh)

\* <<floor(a / c), a mod c>> for c # 0
BDivMod(a, c) ==
  LET sh == LimbBits - BitLenInt(c[Len(c)])
  IN BDivNormalised(BShl(a, sh), BShl(c, sh), sh)

\* floor(sqrt(n)) for 0 <= n < 2^30, one bit of the root per step
RECURSIVE ISqrtFrom(_, _, _)
ISqrtFrom(n, k, r) ==
  IF k < 0 THEN r
  ELSE ISqrtFrom(n, k - 1, IF (r + 2 ^ k) * (r + 2 ^ k) <= n THEN r + 2 ^ k ELSE r)

\* Newton's iteration r <- (r + a div r) div 2 from an r >= floor(sqrt(a)),
\* which decreases until it reaches floor(sqrt(a))
RECURSIVE BSqrtNewton(_, _)
BSqrtStep(a, r, r1) == IF BCmp(r1, r) < 0 THEN BSqrtNewton(a, r1) ELSE r

BSqrtNewton(a, r) == BSqrtStep(a, r, BShr(BAdd(r, BDivMod(a, r)[1]), 1))

\* floor(sqrt(a))
BSqrt(a) ==
  IF BBitLen(a) <= 30 THEN BFromInt(ISqrtFrom(BToInt(a), 14, 0))
  ELSE LET s == BBitLen(a) - 30
           sh == s + (s % 2)
           top == BToInt(BShr(a, sh))
       IN BSqrtNewton(a, BShl(BFromInt(ISqrtFrom(top, 14, 0) + 1), sh \div 2))

(***************************************************************************)
(* IEEE-754 binary64 values: <<s, -1, m, e>> is s * m * 2^e with s the     *)
(* sign (1 or -1), m the significand as a limb sequence of exactly 53      *)
(* bits, or fewer when e = EMin (subnormal).  The second component tells   *)
(* a binary64 value from an extended rational, whose denominator is never  *)
(* negative.  <<0, -1, <<>>, 0>> is zero (its sign is not kept),            *)
(* <<s, -1, <<>>, 0>> is s * infinity, <<0, -1, <<>>, 1>> is NaN.  Every     *)
(* operation computes the exact result and rounds it once, to nearest,     *)
(* ties to even, as the hardware does.                                     *)
(***************************************************************************)
Prec == 53

EMin == -1074

EMax == 971

DZero == <<0, -1, <<>>, 0>>

DNaN == <<0, -1, <<>>, 1>>

DInf(s) == <<s, -1, <<>>, 0>>

IsD(x) == x[2] = -1

dIsNaN(x) == x = DNaN

dIsInf(x) == x[1] # 0 /\ x[3] = <<>>

dIsZero(x) == x = DZero

dIsFinite(x) == x[3] # <<>> \/ x = DZero

Finish(s, m, e) ==
  IF m = <<>> THEN DZero ELSE IF e > EMax THEN DInf(s) ELSE <<s, -1, m, e>>

\* number of low bits of the exact significand M * 2^E that do not fit
Drop(M, E) == Max(BBitLen(M) - Prec, EMin - E)

\* q, or q + 1 when the bits dropped after q round up: they are more than
\* half a unit of q (half and rest), or half a unit and q is odd
RoundInc(q, half, rest) ==
  IF half /\ (rest \/ BBit(q, 0) = 1) THEN BAdd(q, <<1>>) ELSE q

\* s * q * 2^E for a q of Prec bits, or of Prec + 1 bits ending in 0
RoundCarry(s, q, E) ==
  IF BBitLen(q) > Prec THEN Finish(s, BShr(q, 1), E + 1) ELSE Finish(s, q, E)

\* the binary64 value nearest to s * (M + r) * 2^E, where 0 < r < 1 when
\* sticky and r = 0 otherwise
RoundD(s, M, E, sticky) ==
  IF M = <<>> THEN DZero
  ELSE LET drop == Drop(M, E)
           sh == Min(Prec - BBitLen(M), E - EMin)
       IN IF drop <= 0
          THEN Finish(s, BShl(M, sh), E - sh)
          ELSE RoundCarry(s, RoundInc(BShr(M, drop), BBit(M, drop - 1) = 1,
                                      sticky \/ BLowBits(M, drop - 1)),
                          E + drop)

\* rounding s * (M + r) * 2^E changes its value
Inexact(M, E, sticky) ==
  M # <<>> /\ (sticky \/ (Drop(M, E) > 0 /\ BLowBits(M, Drop(M, E)))
                      \/ E + BBitLen(M) > EMax + Prec)

\* sx * X * 2^e + sy * Y * 2^e as <<s, M, e>>
AddAligned(sx, X, sy, Y, e) ==
  LET c == BCmp(X, Y)
  IN IF sx = sy THEN <<sx, BAdd(X, Y), e>>
     ELSE IF c = 0 THEN <<0, <<>>, e>>
     ELSE IF c > 0 THEN <<sx, BSub(X, Y), e>>
     ELSE <<sy, BSub(Y, X), e>>

\* the binary64 value nearest to the exact <<s, M, E>>
RoundExact(u) == RoundD(u[1], u[2], u[3], FALSE)

\* exact sum of two finite non-zero values: <<s, M, E>> unrounded
AddExact(x, y) ==
  LET e == Min(x[4], y[4])
  IN AddAligned(x[1], BShl(x[3], x[4] - e), y[1], BShl(y[3], y[4] - e), e)

dAdd(x, y) ==
  IF dIsNaN(x) \/ dIsNaN(y) THEN DNaN
  ELSE IF dIsInf(x) THEN (IF dIsInf(y) /\ y[1] # x[1] THEN DNaN ELSE x)
  ELSE IF dIsInf(y) THEN y
  ELSE IF dIsZero(x) THEN y
  ELSE IF dIsZero(y) THEN x
  ELSE RoundExact(AddExact(x, y))

dMul(x, y) ==
  IF dIsNaN(x) \/ dIsNaN(y) THEN DNaN
  ELSE IF dIsInf(x) \/ dIsInf(y)
       THEN (IF dIsZero(x) \/ dIsZero(y) THEN DNaN ELSE DInf(x[1] * y[1]))
  ELSE IF dIsZero(x) \/ dIsZero(y) THEN DZero
  ELSE RoundD(x[1] * y[1], BMul(x[3], y[3]), x[4] + y[4], FALSE)

\* s * (qr[1] + r) * 2^E, where r # 0 when the remainder qr[2] is not zero
DivSticky(s, qr, E) == <<s, qr[1], E, qr[2] # <<>> >>

\* the binary64 value nearest to <<s, Q, E, sticky>>
RoundSticky(u) == RoundD(u[1], u[2], u[3], u[4])

\* quotient of two finite non-zero values with at least 56 bits, unrounded:
\* <<s, Q, E, sticky>>
DivExact(x, y) ==
  LET k == 56 + Max(0, BBitLen(y[3]) - BBitLen(x[3]))
  IN DivSticky(x[1] * y[1], BDivMod(BShl(x[3], k), y[3]), x[4] - y[4] - k)

dDiv(x, y) ==
  IF dIsNaN(x) \/ dIsNaN(y) THEN DNaN
  ELSE IF dIsInf(x) THEN (IF dIsInf(y) THEN DNaN
                          ELSE IF dIsZero(y) THEN x ELSE DInf(x[1] * y[1]))
  ELSE IF dIsInf(y) THEN DZero
  ELSE IF dIsZero(y) THEN (IF dIsZero(x) THEN DNaN ELSE DInf(x[1]))
  ELSE IF dIsZero(x) THEN DZero
  ELSE RoundSticky(DivExact(x, y))

\* the binary64 value nearest to sqrt(M) * 2^E, from the root r = floor(sqrt(M))
SqrtRoot(M, r, E) == RoundD(1, r, E, BMul(r, r) # M)

SqrtRound(M, E) == SqrtRoot(M, BSqrt(M), E)

dSqrt(x) ==
  IF dIsNaN(x) \/ x[1] < 0 THEN DNaN
  ELSE IF dIsInf(x) \/ dIsZero(x) THEN x
  ELSE LET k0 == 110 - BBitLen(x[3])
           k == k0 + ((x[4] - k0) % 2)
       IN SqrtRound(BShl(x[3], k), (x[4] - k) \div 2)

\* static_cast<int>(std::ceil(x)) for a finite x whose ceiling fits an int
dCeil(x) ==
  IF dIsZero(x) THEN 0
  ELSE IF x[4] >= 0 THEN x[1] * BToInt(BShl(x[3], x[4]))
  ELSE LET q == BToInt(BShr(x[3], -x[4]))
       IN IF x[1] > 0 THEN (IF BLowBits(x[3], -x[4]) THEN q + 1 ELSE q) ELSE -q

\* the binary64 value of the literal n / d (d > 0), or of a rational special
DOfRat(x) ==
  IF x[2] = 0 THEN (IF x[1] = 0 THEN DNaN ELSE DInf(x[1]))
  ELSE IF x[1] = 0 THEN DZero
  ELSE LET n == RoundD(IF x[1] > 0 THEN 1 ELSE -1,
                       BFromInt(IF x[1] > 0 THEN x[1] ELSE -x[1]), 0, FALSE)
       IN IF x[2] = 1 THEN n ELSE dDiv(n, RoundD(1, BFromInt(x[2]), 0, FALSE))

(***************************************************************************)
(* Extended rational arithmetic, and the operators of double that the code *)
(* uses, on either representation                                          *)
(***************************************************************************)
Abs(n) == IF n < 0 THEN -n ELSE n

Sgn(n) == IF n < 0 THEN -1 ELSE IF n > 0 THEN 1 ELSE 0

RECURSIVE Gcd(_, _)
Gcd(a, b) == IF b = 0 THEN a ELSE Gcd(b, a % b)

\* n/d in lowest terms with a non-negative denominator
Norm(n, d) ==
  IF d = 0 THEN <<Sgn(n), 0>>
  ELSE LET g == Gcd(Abs(n), Abs(d))
       IN <<Sgn(d) * (n \div g), Abs(d) \div g>>

R(n) == <<n, 1>>

Zero == <<0, 1>>

One == <<1, 1>>

Half == <<1, 2>>

Two == <<2, 1>>

Six == <<6, 1>>

NaN == <<0, 0>>

PosInf == <<1, 0>>

\* The step forward_difference uses when newton_raphson calls it: 1e-8
FDStep == <<1, 10^8>>

\* The binary64 values of the non-negative literals of the code (InitDouble
\* checks each against DOfRat)
DLiteral ==
  (Zero :> DZero) @@ (One :> <<1, -1, <<0, 0, 0, 128>>, -52>>)
    @@ (Two :> <<1, -1, <<0, 0, 0, 128>>, -51>>)
    @@ (R(3) :> <<1, -1, <<0, 0, 0, 192>>, -51>>)
    @@ (R(4) :> <<1, -1, <<0, 0, 0, 128>>, -50>>)
    @@ (Six :> <<1, -1, <<0, 0, 0, 192>>, -50>>)
    @@ (R(10) :> <<1, -1, <<0, 0, 0, 160>>, -49>>)
    @@ (Half :> <<1, -1, <<0, 0, 0, 128>>, -53>>)
    @@ (FDStep :> <<1, -1, <<3130, 17505, 26171, 171>>, -79>>)
    @@ (NaN :> DNaN) @@ (PosInf :> DInf(1))

\* A binary64 operand as it is, a literal as its binary64 value
ToD(x) == IF IsD(x) THEN x ELSE [DLiteral[<<Abs(x[1]), x[2]>>] EXCEPT ![1] = Sgn(x[1])]

IsNaN(x) == x[1] = 0 /\ (x[2] = 0 \/ (IsD(x) /\ dIsNaN(x)))

IsFinite(x) == x[2] > 0 \/ (IsD(x) /\ dIsFinite(x))

Neg(x) == [x EXCEPT ![1] = -x[1]]

Add(x, y) ==
  IF x[2] > 0 /\ y[2] > 0
    THEN LET g == Gcd(x[2], y[2])
             l == (x[2] \div g) * y[2]
         IN Norm(x[1] * (l \div x[2]) + y[1] * (l \div y[2]), l)
  ELSE IF IsD(x) \/ IsD(y) THEN dAdd(ToD(x), ToD(y))
  ELSE IF IsNaN(x) \/ IsNaN(y) THEN NaN
  ELSE IF ~IsFinite(x) /\ ~IsFinite(y) THEN (IF x = y THEN x ELSE NaN)
  ELSE IF IsFinite(x) THEN y ELSE x

Sub(x, y) == Add(x, Neg(y))

\* x * y on extended rationals
MulQ(x, y) ==
  IF x[2] > 0 /\ y[2] > 0
    THEN LET g1 == Gcd(Abs(x[1]), y[2])
             g2 == Gcd(Abs(y[1]), x[2])
         IN Norm((x[1] \div g1) * (y[1] \div g2), (x[2] \div g2) * (y[2] \div g1))
  ELSE <<Sgn(x[1]) * Sgn(y[1]), 0>>

Mul(x, y) == IF IsD(x) \/ IsD(y) THEN dMul(ToD(x), ToD(y)) ELSE MulQ(x, y)

Inv(x) ==
  IF IsNaN(x) THEN NaN
  ELSE IF x[1] = 0 THEN PosInf
  ELSE IF x[2] = 0 THEN Zero
  ELSE <<Sgn(x[1]) * x[2], Abs(x[1])>>

Div(x, y) == IF IsD(x) \/ IsD(y) THEN dDiv(ToD(x), ToD(y)) ELSE MulQ(x, Inv(y))

\* x < y, false when either is NaN
Lt(x, y) == Sub(x, y)[1] < 0

\* the same value, in either representation
Same(x, y) == IF IsD(x) \/ IsD(y) THEN ToD(x) = ToD(y) ELSE x = y

\* x <= y, false when either is NaN
Le(x, y) == ~IsNaN(x) /\ ~IsNaN(y) /\ (Same(x, y) \/ Lt(x, y))

\* fabs
Fabs(x) == [x EXCEPT ![1] = Abs(x[1])]

\* std::ceil of a finite value, as an integer
Ceil(x) == IF IsD(x) THEN dCeil(x) ELSE -((-x[1]) \div x[2])

\* C++ operator== on doubles: NaN is equal to nothing
DEq(x, y) == ~IsNaN(x) /\ Same(x, y)

(***************************************************************************)
(* Vectors and matrices                                                    *)
(***************************************************************************)
\* The sequence s itself, with its elements computed once (TLC computes an
\* element of [j \in 1..n |-> e] anew at every use)
Vec(s) == s \o <<>>

VAdd(u, v) == Vec([j \in 1..Len(u) |-> Add(u[j], v[j])])

VSub(u, v) == Vec([j \in 1..Len(u) |-> Sub(u[j], v[j])])

VScale(c, v) == Vec([j \in 1..Len(v) |-> Mul(c, v[j])])

VNeg(v) == Vec([j \in 1..Len(v) |-> Neg(v[j])])

RECURSIVE SumSeq(_)
SumSeq(s) == IF s = <<>> THEN Zero ELSE Add(SumSeq(SubSeq(s, 1, Len(s) - 1)), s[Len(s)])

MatVec(M, v) ==
  Vec([r \in 1..Len(M) |-> SumSeq([c \in 1..Len(v) |-> Mul(M[r][c], v[c])])])

(***************************************************************************)
(* User-supplied functions.  A function value is modelled by a tag; the    *)
(* model evaluates it with EvalF / EvalRes / EvalJac.                      *)
(***************************************************************************)
\* Derivative functions f(t, y) handed to the steppers:
\*   zero   f_j = 0            one    f_j = 1          time   f_j = t
\*   decay  f_j = -2 * y_j     cross  f_j = 2 * y_(n-1-j)
\*   square f_j = t^2          cube   f_j = t^3        quartic f_j = t^4
Derivs ==
  {[kind |-> k] :
     k \in {"zero", "one", "time", "decay", "cross", "square", "cube", "quartic"}}

\* tt * tt * ... * tt, k factors
RECURSIVE Pow(_, _)
Pow(tt, k) == IF k = 0 THEN One ELSE Mul(Pow(tt, k - 1), tt)

EvalF(f, tt, yy) ==
  LET n == Len(yy)
  IN CASE f.kind = "zero" -> Vec([j \in 1..n |-> Zero])
       [] f.kind = "one" -> Vec([j \in 1..n |-> One])
       [] f.kind = "time" -> Vec([j \in 1..n |-> tt])
       [] f.kind = "decay" -> Vec([j \in 1..n |-> Mul(R(-2), yy[j])])
       [] f.kind = "cross" -> Vec([j \in 1..n |-> Mul(Two, yy[n + 1 - j])])
       [] f.kind = "square" -> Vec([j \in 1..n |-> Pow(tt, 2)])
       [] f.kind = "cube" -> Vec([j \in 1..n |-> Pow(tt, 3)])
       [] f.kind = "quartic" -> Vec([j \in 1..n |-> Pow(tt, 4)])

\* The event logged when the user's derivative function is called
FCall(tt, yy) == [fn |-> "f", args |-> <<tt, yy>>]

\* Residual functions handed to newton_raphson: the user residuals
\*   shift3  f(x) = [x0 - 3]
\*   sq2     f(x) = [x0^2 - 2]
\*   aff2    f(x) = [x1 - 1, x0 + x1 - 2]
\*   tall    f(x) = [x0, x0^2]         (R^1 -> R^2)
\*   wide    f(x) = [x0 + 2 * x1]      (R^2 -> R^1)
\* and the closure F that euler_backward builds at each step, which captures
\* h, f, t1 = t[i + 1] and y0 = y[i] by value.
Closure(h, f, t1, y0) == [kind |-> "F", h |-> h, f |-> f, t1 |-> t1, y0 |-> y0]

UserRes(kind) == [kind |-> kind]

EvalRes(g, xx) ==
  CASE g.kind = "shift3" -> <<Sub(xx[1], R(3))>>
    [] g.kind = "sq2"    -> <<Sub(Mul(xx[1], xx[1]), Two)>>
    [] g.kind = "aff2"   -> <<Sub(xx[2], One), Sub(Add(xx[1], xx[2]), Two)>>
    [] g.kind = "tall"   -> <<xx[1], Mul(xx[1], xx[1])>>
    [] g.kind = "wide"   -> <<Add(xx[1], Mul(Two, xx[2]))>>
    [] g.kind = "F"      ->
         LET fx == EvalF(g.f, g.t1, xx)
         IN Vec([j \in 1..Len(xx) |-> Sub(Sub(xx[j], g.y0[j]), Mul(g.h, fx[j]))])

\* The event logged by one evaluation of the residual g at xx: a call of the
\* user's residual, or (through the closure F) of the user's derivative.
ResCall(g, xx) ==
  IF g.kind = "F" THEN FCall(g.t1, xx) ELSE [fn |-> "f", args |-> <<xx>>]

\* The analytic Jacobians J_f of the user residuals
EvalJac(g, xx) ==
  CASE g.kind = "shift3" -> << <<One>> >>
    [] g.kind = "sq2"    -> << <<Mul(Two, xx[1])>> >>
    [] g.kind = "aff2"   -> << <<Zero, One>>, <<One, One>> >>

JacCall(xx) == [fn |-> "J_f", args |-> <<xx>>]

(***************************************************************************)
(* vec_norm and the convergence test                                       *)
(***************************************************************************)
\* The sum accumulated by vec_norm; vec_norm returns its square root.
VecNormSum(v) == SumSeq([j \in 1..Len(v) |-> Mul(v[j], v[j])])

\* p * 10^e < q for integers p >= 0, q > 0 (no intermediate power is formed)
RECURSIVE LtPow10(_, _, _)
LtPow10(p, q, e) == IF e = 0 THEN p < q ELSE LtPow10(p, (q + 9) \div 10, e - 1)

\* 10^e as a binary64 value (exact for e <= 22)
RECURSIVE DPow10(_)
DPow10(e) == IF e = 0 THEN ToD(One) ELSE dMul(DPow10(e - 1), ToD(R(10)))

\* the binary64 value of the literal 1e-<e>
Tol(e) == dDiv(ToD(One), DPow10(e))

\* Mutant of NormBelow: vec_norm(v) <= tol
NormBelowOrEqual(v, tolExp) ==
  LET s == VecNormSum(v)
  IN IsFinite(s) /\ LtPow10(s[1], s[2] + 1, 2 * tolExp)

\* Mutant of SqrtBelow: the sum of squares itself is compared with tol
SumBelow(s, tolExp) ==
  IF IsD(s) THEN Lt(s, Tol(tolExp))
  ELSE IsFinite(s) /\ LtPow10(s[1], s[2], tolExp)

\* std::sqrt(s) < tol for tol = 10^(-tolExp); on rationals sqrt(s) < tol
\* iff s < tol^2
SqrtBelow(s, tolExp) ==
  IF IsD(s) THEN Lt(dSqrt(s), Tol(tolExp))
  ELSE IsFinite(s) /\ LtPow10(s[1], s[2], 2 * tolExp)

\* vec_norm(v) < tol
NormBelow(v, tolExp) == SqrtBelow(VecNormSum(v), tolExp)

(***************************************************************************)
(* gaussian_elimination                                                    *)
(***************************************************************************)
Swap(s, p, q) == [s EXCEPT ![p] = s[q], ![q] = s[p]]

\* The partial-pivoting scan of column i: k runs over the rows below i
RECURSIVE PivotScan(_, _, _, _)
PivotScan(A, i, k, maxRow) ==
  IF k > Len(A) THEN maxRow
  ELSE PivotScan(A, i, k + 1,
                 IF Lt(Fabs(A[maxRow][i]), Fabs(A[k][i])) THEN k ELSE maxRow)

\* Mutant of PivotRow: among rows tied for the maximum the last one wins
RECURSIVE PivotScanLast(_, _, _, _)
PivotScanLast(A, i, k, maxRow) ==
  IF k > Len(A) THEN maxRow
  ELSE PivotScanLast(A, i, k + 1,
                     IF Lt(Fabs(A[k][i]), Fabs(A[maxRow][i])) THEN maxRow ELSE k)

PivotRowLastOfTies(A, i) == PivotScanLast(A, i, i + 1, i)

\* Mutant of PivotRow: no pivoting, the diagonal entry is always the pivot
PivotRowDiagonal(A, i) == i

PivotRow(A, i) == PivotScan(A, i, i + 1, i)

\* Mutant of Factor: the pivot is divided by the entry below it
FactorInverted(A, i, k) == Div(A[i][i], A[k][i])

\* The elimination multiplier of row k against the pivot row i
Factor(A, i, k) == Div(A[k][i], A[i][i])

\* Rows below i after subtracting factor * (row i), columns i.. only
EliminateBelow(A, b, i) ==
  LET n == Len(A)
  IN [A |-> Vec([k \in 1..n |->
                   IF k > i
                     THEN Vec([j \in 1..n |->
                                 IF j >= i
                                   THEN Sub(A[k][j], Mul(Factor(A, i, k), A[i][j]))
                                   ELSE A[k][j]])
                     ELSE A[k]]),
      b |-> Vec([k \in 1..n |->
                   IF k > i THEN Sub(b[k], Mul(Factor(A, i, k), b[i])) ELSE b[k]])]

\* Rows i and maxRow of A and of b swapped, then the rows below i eliminated
SwapAndEliminate(A, b, i, maxRow) ==
  EliminateBelow(Swap(A, i, maxRow), Swap(b, i, maxRow), i)

\* One iteration of the forward-elimination loop (column i, 1-based)
GaussColumn(A, b, i) == SwapAndEliminate(A, b, i, PivotRow(A, i))

RECURSIVE ForwardElimination(_, _, _)
\* The iterations from column i on, s being what the columns before i left
ForwardFrom(s, i) == ForwardElimination(s.A, s.b, i)

ForwardElimination(A, b, i) ==
  IF i > Len(A) THEN [A |-> A, b |-> b] ELSE ForwardFrom(GaussColumn(A, b, i), i + 1)

\* b[i] - sum over j > i of A[i][j] * x[j], subtracted in increasing j
RECURSIVE BackRow(_, _, _, _)
BackRow(Ai, xs, j, acc) ==
  IF j > Len(Ai) THEN acc ELSE BackRow(Ai, xs, j + 1, Sub(acc, Mul(Ai[j], xs[j])))

\* Mutant of BackEntry: a zero pivot is not divided by, x[i] is left 0.0
BackEntryChecked(Ai, xs, i, bi) ==
  IF Same(Ai[i], Zero) THEN Zero ELSE Div(BackRow(Ai, xs, i + 1, bi), Ai[i])

\* x[i] = b[i]; x[i] -= A[i][j] * x[j] for j > i; x[i] /= A[i][i]
BackEntry(Ai, xs, i, bi) == Div(BackRow(Ai, xs, i + 1, bi), Ai[i])

RECURSIVE BackSubstitution(_, _, _, _)
BackSubstitution(A, b, i, xs) ==
  IF i < 1 THEN xs
  ELSE BackSubstitution(A, b, i - 1, [xs EXCEPT ![i] = BackEntry(A[i], xs, i, b[i])])

\* x(n, 0.0) and the back-substitution loop on the eliminated system s
BackSolve(s) == BackSubstitution(s.A, s.b, Len(s.A), [k \in 1..Len(s.A) |-> Zero])

gaussian_elimination(A, b) == BackSolve(ForwardElimination(A, b, 1))

GaussCall(A, b) == [fn |-> "gaussian_elimination", args |-> <<A, b>>]

(***************************************************************************)
(* forward_difference                                                      *)
(***************************************************************************)
\* Mutant of xPerturbed: the perturbed point is not reset to x, so the
\* perturbations of the coordinates before i stay in it
xPerturbedAccumulated(xx, i, h) ==
  Vec([k \in 1..Len(xx) |-> IF k <= i THEN Add(xx[k], h) ELSE xx[k]])

\* xPerturbed = x; xPerturbed[i] += h
xPerturbed(xx, i, h) == [xx EXCEPT ![i] = Add(xx[i], h)]

\* The element v[r] of a vector read without a bounds check: past the end
\* the read is undefined, and yields the value u
Unchecked(v, r, u) == IF r <= Len(v) THEN v[r] ELSE u

\* The inner loop of column i: J[j][i] = (FxPerturbed[j] - Fx[j]) / h for
\* every j < n, where u1 and u2 are what reads past the end of FxPerturbed
\* and Fx yield
FDColumn(Jm, FxP, F0, i, h, u1, u2) ==
  Vec([j \in 1..Len(Jm) |->
         [Jm[j] EXCEPT ![i] = Div(Sub(Unchecked(FxP, j, u1), Unchecked(F0, j, u2)), h)]])

forward_difference(g, xx, h) ==
  LET n == Len(xx)
      Fx == EvalRes(g, xx)
      col == Vec([i \in 1..n |->
                    LET FxPerturbed == EvalRes(g, xPerturbed(xx, i, h))
                    IN Vec([j \in 1..n |-> Div(Sub(FxPerturbed[j], Fx[j]), h)])])
  IN Vec([j \in 1..n |-> Vec([i \in 1..n |-> col[i][j]])])

\* The calls forward_difference makes, in order: f(x), then f at each
\* perturbed point
forward_difference_calls(g, xx, h) ==
  <<[fn |-> "forward_difference", args |-> <<xx, h>>], ResCall(g, xx)>>
    \o [i \in 1..Len(xx) |-> ResCall(g, xPerturbed(xx, i, h))]

(***************************************************************************)
(* newton_raphson                                                          *)
(***************************************************************************)
NewtonDefaultMaxIter == 100

NewtonDefaultTolExp == 10

Converged(iter) == <<"Converged in", iter, "iterations.">>

\* Mutant of NewtonBody: the Jacobian is computed before the convergence test
NewtonBodyEagerJacobian(g, useJ, tolExp, st) ==
  LET Fx == EvalRes(g, st.x)
      tr1 == Append(st.trace, ResCall(g, st.x))
      J == IF useJ THEN EvalJac(g, st.x) ELSE forward_difference(g, st.x, FDStep)
      tr2 == IF useJ THEN Append(tr1, JacCall(st.x))
             ELSE tr1 \o forward_difference_calls(g, st.x, FDStep)
      negFx == VNeg(Fx)
  IN IF NormBelow(Fx, tolExp)
       THEN [st EXCEPT !.done = TRUE, !.trace = tr2,
                       !.out = Append(st.out, Converged(st.iter))]
       ELSE [st EXCEPT !.x = VAdd(st.x, gaussian_elimination(J, negFx)),
                       !.iter = st.iter + 1,
                       !.trace = Append(tr2, GaussCall(J, negFx))]

\* Mutant of NewtonUpdate: the system solved is J * delta = Fx
NewtonUpdateUnnegated(st, tr2, Jm, negFx) ==
  [st EXCEPT !.x = VAdd(st.x, gaussian_elimination(Jm, VNeg(negFx))),
             !.iter = st.iter + 1,
             !.trace = Append(tr2, GaussCall(Jm, VNeg(negFx)))]

\* Mutant of NewtonUpdate: a damped update, x += delta / 2
NewtonUpdateHalved(st, tr2, Jm, negFx) ==
  [st EXCEPT !.x = VAdd(st.x, VScale(Half, gaussian_elimination(Jm, negFx))),
             !.iter = st.iter + 1,
             !.trace = Append(tr2, GaussCall(Jm, negFx))]

\* The end of the loop body, from the Jacobian J and negFx = -Fx:
\* delta = gaussian_elimination(J, negFx), x += delta, ++iter
NewtonUpdate(st, tr2, Jm, negFx) ==
  [st EXCEPT !.x = VAdd(st.x, gaussian_elimination(Jm, negFx)),
             !.iter = st.iter + 1,
             !.trace = Append(tr2, GaussCall(Jm, negFx))]

\* The iterate st.x of an iteration tested: f is evaluated at it, and the
\* body returns when the norm is below tol
TestedAfter(g, tolExp, st) ==
  IF NormBelow(EvalRes(g, st.x), tolExp)
    THEN [st EXCEPT !.done = TRUE, !.trace = Append(st.trace, ResCall(g, st.x)),
                    !.out = Append(st.out, Converged(st.iter))]
  ELSE [st EXCEPT !.trace = Append(st.trace, ResCall(g, st.x))]

\* Mutant of NewtonTest: the update comes first and the iterate it gives is
\* tested in the same iteration
NewtonTestAfterUpdate(g, useJ, tolExp, st, Fx0) ==
  TestedAfter(g, tolExp,
              NewtonUpdate(st,
                           IF useJ THEN Append(st.trace, JacCall(st.x))
                           ELSE st.trace \o forward_difference_calls(g, st.x, FDStep),
                           IF useJ THEN EvalJac(g, st.x)
                           ELSE forward_difference(g, st.x, FDStep),
                           VNeg(Fx0)))

\* The loop body after Fx = f(x): the convergence test, then the Jacobian
NewtonTest(g, useJ, tolExp, st, Fx0) ==
  LET tr1 == Append(st.trace, ResCall(g, st.x))
  IN IF NormBelow(Fx0, tolExp)
       THEN [st EXCEPT !.done = TRUE, !.trace = tr1,
                       !.out = Append(st.out, Converged(st.iter))]
       ELSE NewtonUpdate(st,
                         IF useJ THEN Append(tr1, JacCall(st.x))
                         ELSE tr1 \o forward_difference_calls(g, st.x, FDStep),
                         IF useJ THEN EvalJac(g, st.x)
                         ELSE forward_difference(g, st.x, FDStep),
                         VNeg(Fx0))

\* One execution of the loop body.  st = [x, iter, done, trace, out]: the
\* iterate, the loop counter, whether the body returned, the calls made so
\* far and the lines written to std::cout.
NewtonBody(g, useJ, tolExp, st) == NewtonTest(g, useJ, tolExp, st, EvalRes(g, st.x))

\* Mutant of LoopContinues: iter <= maxIter
LoopContinuesInclusive(iter, maxIter) == iter <= maxIter

\* The loop condition iter < maxIter
LoopContinues(iter, maxIter) == iter < maxIter

RECURSIVE NewtonLoop(_, _, _, _, _)
NewtonLoop(g, useJ, maxIter, tolExp, st) ==
  IF st.done \/ ~LoopContinues(st.iter, maxIter) THEN st
  ELSE NewtonLoop(g, useJ, maxIter, tolExp, NewtonBody(g, useJ, tolExp, st))

\* The whole call; the result is the record whose x is the returned vector
newton_raphson(g, x0, useJ, maxIter, tolExp, tr, o) ==
  NewtonLoop(g, useJ, maxIter, tolExp,
             [x |-> x0, iter |-> 0, done |-> FALSE, trace |-> tr, out |-> o])

(***************************************************************************)
(* The calls the model explores                                            *)
(***************************************************************************)
\* Times are multiples of 1/2; the end time t1 ranges over 0, 1/2, ...,
\* MaxT1Halves/2.
MaxT1Halves == 3

\* The largest maxIter handed to a direct newton_raphson call
MaxIter == 2

T0s == {Zero, Half}

T1s == {Norm(k, 2) : k \in 0..MaxT1Halves}

Hs == {<<-1, 2>>, Zero, Half, One, <<3, 2>>}

Y0s == {<<Zero>>, <<One>>, <<One, Zero>>}

Steppers == {"euler_forward", "euler_backward", "runge_kutta_4"}

\* euler_backward is not explored with the cubic and quartic derivatives:
\* differencing a residual of magnitude above 21 with the step 1e-8 leaves
\* the range of the model's integers.
StepperCalls ==
  {c \in [op : Steppers, f : Derivs, t0 : T0s, t1 : T1s, y0 : Y0s, h : Hs] :
     c.op = "euler_backward" => c.f.kind \notin {"cube", "quartic"}}

TolExps == {1, 10}

\* sq2 is explored with its analytic Jacobian only (the square of a point
\* perturbed by 1e-8 has a denominator of 10^16), and from x0 = 100 for at
\* most one iteration.
NewtonProblems ==
  {[f |-> UserRes("shift3"), x0 |-> <<v>>, useJ |-> u] :
     v \in {R(3), Zero, <<61, 20>>, <<31, 10>>}, u \in BOOLEAN}
    \cup {[f |-> UserRes("aff2"), x0 |-> v, useJ |-> u] :
            v \in {<<Zero, Zero>>, <<One, One>>}, u \in BOOLEAN}
    \cup {[f |-> UserRes("sq2"), x0 |-> <<v>>, useJ |-> TRUE] : v \in {One, R(100)}}

NewtonCalls ==
  {[op |-> "newton_raphson", f |-> c[1].f, x0 |-> c[1].x0, useJ |-> c[1].useJ,
    maxIter |-> c[2], tolExp |-> c[3]] :
     c \in {q \in NewtonProblems \X ((-1)..MaxIter) \X TolExps :
              q[1].x0 = <<R(100)>> => q[2] <= 1}}

Entries == {R(-1), Zero, One, Two}

Rows3 == {<<Two, One, R(-1)>>, <<R(-3), R(-1), Two>>, <<R(-2), One, Two>>,
          <<Zero, One, One>>, <<One, Zero, Zero>>, <<Zero, Zero, One>>}

Matrices ==
  {<<<<e>>>> : e \in Entries}
    \cup {<<<<p, q>>, <<r, s>>>> : p \in Entries, q \in Entries, r \in Entries, s \in Entries}
    \cup {<<<<<<1, 10^9>>, One>>, <<One, One>>>>}
    \cup {<<r1, r2, r3>> : r1 \in Rows3, r2 \in Rows3, r3 \in Rows3}

Rhs(n) ==
  CASE n = 1 -> {<<One>>, <<Zero>>}
    [] n = 2 -> {<<One, Two>>, <<Zero, R(-1)>>}
    [] n = 3 -> {<<R(8), R(-11), R(-3)>>}

\* forward_difference is called with an explicit step or with its default;
\* the quadratic functions are explored with h = 1/2 and h = 1 only.
FDCalls ==
  {c \in [op : {"forward_difference"},
          f : {UserRes(k) : k \in {"shift3", "sq2", "aff2", "tall", "wide"}},
          x : {<<Zero>>, <<One>>, <<R(3)>>, <<Zero, Zero>>, <<One, Two>>, <<R(-1), One>>},
          h : {Half, One, FDStep}] :
     /\ Len(c.x) = (IF c.f.kind \in {"aff2", "wide"} THEN 2 ELSE 1)
     /\ c.f.kind \in {"sq2", "tall"} => c.h # FDStep}

\* What a read past the end of a vector may yield
Garbage == {Zero, One, NaN}

GaussCalls ==
  {[op |-> "gaussian_elimination", A |-> c[1], b |-> c[2]] :
     c \in UNION {{M} \X Rhs(Len(M)) : M \in Matrices}}

\* The destination of to_csv before the call: no such file
NoFile == [exists |-> FALSE, text |-> <<>>]

(***************************************************************************)
(* State                                                                   *)
(***************************************************************************)
VARIABLES
  op,     \* the library function called
  args,   \* its arguments
  pc,     \* "entry", "loop", "back" (back substitution), "returned", "threw"
  exc,    \* the message of the std::invalid_argument thrown, "" if none
  steps,  \* steppers: the local steps
  t,      \* steppers: the local t
  y,      \* steppers: the local y
  i,      \* steppers and gaussian_elimination: the loop counter i
  x,      \* newton_raphson and gaussian_elimination: the local x
  iter,   \* newton_raphson: the loop counter iter
  A,      \* gaussian_elimination: its copy of A
  b,      \* gaussian_elimination: its copy of b
  trace,  \* the calls made so far to user functions and to other solvers
  out,    \* the lines written to std::cout
  ret,    \* the value returned, <<>> before the return
  J,      \* forward_difference: the local J
  Fx,     \* forward_difference: the local Fx
  sum,    \* vec_norm: the local sum
  file,   \* to_csv: the destination in the file system, [exists, text]
  thr     \* concurrent calls: the locals of each thread's call

vars ==
  <<op, args, pc, exc, steps, t, y, i, x, iter, A, b, trace, out, ret, J, Fx, sum, file,
    thr>>

Init ==
  /\ args \in StepperCalls \cup NewtonCalls \cup GaussCalls \cup FDCalls
  /\ op = args.op
  /\ pc = "entry"
  /\ exc = ""
  /\ steps = 0
  /\ t = <<>>
  /\ y = <<>>
  /\ i = 0
  /\ x = <<>>
  /\ iter = 0
  /\ A = <<>>
  /\ b = <<>>
  /\ trace = <<>>
  /\ out = <<>>
  /\ ret = <<>>
  /\ J = <<>>
  /\ Fx = <<>>
  /\ sum = Zero
  /\ file = NoFile
  /\ thr = <<>>

(***************************************************************************)
(* The steppers: argument checks and allocation                            *)
(***************************************************************************)
InvalidStep(h) == Le(h, Zero)

\* Mutant of InvalidInterval: t1 < t0 instead of t1 <= t0
InvalidIntervalStrict(t0, t1) == Lt(t1, t0)

InvalidInterval(t0, t1) == Le(t1, t0)

\* Mutant of Steps: the quotient rounded down and one step added
StepsFloorPlusOne(t0, t1, h) ==
  (Div(Sub(t1, t0), h)[1] \div Div(Sub(t1, t0), h)[2]) + 1

\* Mutant of Steps: one step more than the quotient rounded up
StepsPlusOne(t0, t1, h) == Ceil(Div(Sub(t1, t0), h)) + 1

\* Mutant of Steps: the quotient truncated instead of rounded up
StepsTruncated(t0, t1, h) == Div(Sub(t1, t0), h)[1] \div Div(Sub(t1, t0), h)[2]

\* static_cast<int>(std::ceil((t1 - t0) / h))
Steps(t0, t1, h) == Ceil(Div(Sub(t1, t0), h))

Throw(msg) ==
  /\ pc' = "threw"
  /\ exc' = msg
  /\ UNCHANGED <<sum, file, thr, J, Fx, op, args, steps, t, y, i, x, iter, A, b, trace, out, ret>>

\* Mutant of Allocate: every y[k] is created with the length of y0
AllocateSized ==
  LET n == Steps(args.t0, args.t1, args.h)
  IN /\ steps' = n
     /\ y' = [k \in 1..(n + 1) |->
                IF k = 1 THEN args.y0 ELSE [j \in 1..Len(args.y0) |-> Zero]]
     /\ t' = [k \in 1..(n + 1) |-> IF k = 1 THEN args.t0 ELSE Zero]
     /\ i' = 0
     /\ pc' = "loop"
     /\ UNCHANGED <<sum, file, thr, J, Fx, op, args, exc, x, iter, A, b, trace, out, ret>>

\* y(steps + 1) with y[0] = y0, t(steps + 1) with t[0] = t0
Allocate ==
  \E n \in {Steps(args.t0, args.t1, args.h)} :
     /\ steps' = n
     /\ y' = [k \in 1..(n + 1) |-> IF k = 1 THEN args.y0 ELSE <<>>]
     /\ t' = [k \in 1..(n + 1) |-> IF k = 1 THEN args.t0 ELSE Zero]
     /\ i' = 0
     /\ pc' = "loop"
     /\ UNCHANGED <<sum, file, thr, J, Fx, op, args, exc, x, iter, A, b, trace, out, ret>>

Validate ==
  IF InvalidStep(args.h) THEN Throw("Step size h must be positive.")
  ELSE IF InvalidInterval(args.t0, args.t1) THEN Throw("t1 must be greater than t0.")
  ELSE Allocate

ReturnSolution ==
  /\ pc = "loop"
  /\ ~(i < steps)
  /\ pc' = "returned"
  /\ ret' = [t |-> t, y |-> y]
  /\ UNCHANGED <<sum, file, thr, J, Fx, op, args, exc, steps, t, y, i, x, iter, A, b, trace, out>>

(***************************************************************************)
(* euler_forward                                                           *)
(***************************************************************************)
euler_forward_enter == op = "euler_forward" /\ pc = "entry" /\ Validate

\* Mutant of EulerForwardUpdate: the step size is left out
EulerForwardUpdateNoStep(yi, h, dydt) ==
  Vec([j \in 1..Len(yi) |-> Add(yi[j], dydt[j])])

\* y[i + 1].push_back(y[i][j] + h * dydt[j]) for each j
EulerForwardUpdate(yi, h, dydt) ==
  Vec([j \in 1..Len(yi) |-> Add(yi[j], Mul(h, dydt[j]))])

euler_forward_step ==
  /\ op = "euler_forward" /\ pc = "loop" /\ i < steps
  /\ LET dydt == EvalF(args.f, t[i + 1], y[i + 1])
     IN /\ trace' = Append(trace, FCall(t[i + 1], y[i + 1]))
        /\ y' = [y EXCEPT ![i + 2] = @ \o EulerForwardUpdate(y[i + 1], args.h, dydt)]
  /\ t' = [t EXCEPT ![i + 2] = Add(t[i + 1], args.h)]
  /\ i' = i + 1
  /\ UNCHANGED <<sum, file, thr, J, Fx, op, args, pc, exc, steps, x, iter, A, b, out, ret>>

euler_forward_return == op = "euler_forward" /\ ReturnSolution

(***************************************************************************)
(* runge_kutta_4                                                           *)
(***************************************************************************)
runge_kutta_4_enter == op = "runge_kutta_4" /\ pc = "entry" /\ Validate

\* Mutant of RK4Stages: the second and third slopes are taken at the time
\* ti instead of ti + h/2
RK4StagesNoMidpoint(f, ti, yi, h) ==
  LET hh == Mul(Half, h)
      k1 == EvalF(f, ti, yi)
      yk2 == Vec([j \in 1..Len(yi) |-> Add(yi[j], Mul(hh, k1[j]))])
      k2 == EvalF(f, ti, yk2)
      yk3 == Vec([j \in 1..Len(yi) |-> Add(yi[j], Mul(hh, k2[j]))])
      k3 == EvalF(f, ti, yk3)
      yk4 == Vec([j \in 1..Len(yi) |-> Add(yi[j], Mul(h, k3[j]))])
      k4 == EvalF(f, Add(ti, h), yk4)
  IN [at |-> <<FCall(ti, yi), FCall(ti, yk2), FCall(ti, yk3), FCall(Add(ti, h), yk4)>>,
      k |-> <<k1, k2, k3, k4>>]

\* The stages s and one more: f evaluated at (tc, yk)
RK4Eval(f, tc, yk, s) ==
  [at |-> Append(s.at, FCall(tc, yk)), k |-> Append(s.k, EvalF(f, tc, yk))]

\* The stages s and the next one: f at ti + c and yk[j] = yi[j] + c * k[j],
\* where k is the slope of the last stage of s
RK4Next(f, ti, yi, c, s) ==
  RK4Eval(f, Add(ti, c),
          Vec([j \in 1..Len(yi) |-> Add(yi[j], Mul(c, s.k[Len(s.k)][j]))]), s)

\* k1 at (ti, yi), k2 and k3 with hh = 0.5 * h, k4 with h
RK4From(f, ti, yi, h, hh) ==
  RK4Next(f, ti, yi, h,
          RK4Next(f, ti, yi, hh,
                  RK4Next(f, ti, yi, hh, RK4Eval(f, ti, yi, [at |-> <<>>, k |-> <<>>]))))

\* The four stages of one step from (ti, yi): the points at which f is
\* evaluated and the slopes obtained
RK4Stages(f, ti, yi, h) == RK4From(f, ti, yi, h, Mul(Half, h))

\* Mutant of RK4Combine: the weighted sum is multiplied by h, not by h/6
RK4CombineUndivided(yi, h, k) ==
  Vec([j \in 1..Len(yi) |->
         Add(yi[j],
             Mul(h, Add(Add(Add(k[1][j], Mul(Two, k[2][j])), Mul(Two, k[3][j])), k[4][j])))])

\* Mutant of RK4Combine: the four slopes weighted equally
RK4CombineEqualWeights(yi, h, k) ==
  Vec([j \in 1..Len(yi) |->
         Add(yi[j],
             Mul(Div(h, R(4)), Add(Add(Add(k[1][j], k[2][j]), k[3][j]), k[4][j])))])

\* yi[j] + (h / 6.0) * (k1[j] + 2.0 * k2[j] + 2.0 * k3[j] + k4[j])
RK4Combine(yi, h, k) ==
  Vec([j \in 1..Len(yi) |->
         Add(yi[j],
             Mul(Div(h, Six),
                 Add(Add(Add(k[1][j], Mul(Two, k[2][j])), Mul(Two, k[3][j])), k[4][j])))])

runge_kutta_4_step ==
  /\ op = "runge_kutta_4" /\ pc = "loop" /\ i < steps
  /\ \E s \in {RK4Stages(args.f, t[i + 1], y[i + 1], args.h)} :
        /\ trace' = trace \o s.at
        /\ y' = [y EXCEPT ![i + 2] = RK4Combine(y[i + 1], args.h, s.k)]
  /\ t' = [t EXCEPT ![i + 2] = Add(t[i + 1], args.h)]
  /\ i' = i + 1
  /\ UNCHANGED <<sum, file, thr, J, Fx, op, args, pc, exc, steps, x, iter, A, b, out, ret>>

runge_kutta_4_return == op = "runge_kutta_4" /\ ReturnSolution

(***************************************************************************)
(* euler_backward                                                          *)
(***************************************************************************)
euler_backward_enter == op = "euler_backward" /\ pc = "entry" /\ Validate

\* Mutant of BackwardResidual: f is evaluated at t[i] instead of t[i + 1]
BackwardResidualAtCurrent(h, f, tnext, yi) == Closure(h, f, Sub(tnext, h), yi)

\* Mutant of BackwardResidual: the residual is built with the step 2h
BackwardResidualDoubledStep(h, f, tnext, yi) == Closure(Add(h, h), f, tnext, yi)

\* The residual of step i, built after t[i + 1] = t[i] + h:
\* F = [h, f, t1 = t[i + 1], y0 = y[i]]
BackwardResidual(h, f, tnext, yi) == Closure(h, f, tnext, yi)

\* Mutant of BackwardSolve: the solve starts from the zero vector
BackwardSolveFromZero(F, yi, tr, o) ==
  newton_raphson(F, [j \in 1..Len(yi) |-> Zero], FALSE,
                 NewtonDefaultMaxIter, NewtonDefaultTolExp, tr, o)

\* Mutant of BackwardSolve: the iterate of a solve that did not converge is
\* dropped, the step keeps y[i]
BackwardSolveKeepOnFailure(F, yi, tr, o) ==
  LET r == newton_raphson(F, yi, FALSE, NewtonDefaultMaxIter, NewtonDefaultTolExp, tr, o)
  IN IF r.done THEN r ELSE [r EXCEPT !.x = yi]

\* newton_raphson(F, y[i]): J_f, maxIter and tol take their defaults
BackwardSolve(F, yi, tr, o) ==
  newton_raphson(F, yi, FALSE, NewtonDefaultMaxIter, NewtonDefaultTolExp, tr, o)

euler_backward_step ==
  /\ op = "euler_backward" /\ pc = "loop" /\ i < steps
  /\ \E tnext \in {Add(t[i + 1], args.h)} :
        /\ t' = [t EXCEPT ![i + 2] = tnext]
        /\ \E r \in {BackwardSolve(BackwardResidual(args.h, args.f, tnext, y[i + 1]),
                                   y[i + 1], trace, out)} :
              /\ y' = [y EXCEPT ![i + 2] = r.x]
              /\ trace' = r.trace
              /\ out' = r.out
  /\ i' = i + 1
  /\ UNCHANGED <<sum, file, thr, J, Fx, op, args, pc, exc, steps, x, iter, A, b, ret>>

euler_backward_return == op = "euler_backward" /\ ReturnSolution

(***************************************************************************)
(* newton_raphson called directly                                          *)
(***************************************************************************)
newton_raphson_enter ==
  /\ op = "newton_raphson" /\ pc = "entry"
  /\ x' = args.x0
  /\ iter' = 0
  /\ pc' = "loop"
  /\ UNCHANGED <<sum, file, thr, J, Fx, op, args, exc, steps, t, y, i, A, b, trace, out, ret>>

newton_raphson_iteration ==
  /\ op = "newton_raphson" /\ pc = "loop" /\ LoopContinues(iter, args.maxIter)
  /\ \E st \in {NewtonBody(args.f, args.useJ, args.tolExp,
                             [x |-> x, iter |-> iter, done |-> FALSE,
                              trace |-> trace, out |-> out])} :
        /\ x' = st.x
        /\ iter' = st.iter
        /\ trace' = st.trace
        /\ out' = st.out
        /\ pc' = IF st.done THEN "returned" ELSE "loop"
        /\ ret' = IF st.done THEN st.x ELSE ret
  /\ UNCHANGED <<sum, file, thr, J, Fx, op, args, exc, steps, t, y, i, A, b>>

newton_raphson_exhausted ==
  /\ op = "newton_raphson" /\ pc = "loop" /\ ~LoopContinues(iter, args.maxIter)
  /\ pc' = "returned"
  /\ ret' = x
  /\ UNCHANGED <<sum, file, thr, J, Fx, op, args, exc, steps, t, y, i, x, iter, A, b, trace, out>>

(***************************************************************************)
(* gaussian_elimination called directly                                    *)
(***************************************************************************)
\* A and b are passed by value: the function works on its own copies
gaussian_elimination_enter ==
  /\ op = "gaussian_elimination" /\ pc = "entry"
  /\ A' = args.A
  /\ b' = args.b
  /\ x' = [k \in 1..Len(args.A) |-> Zero]
  /\ i' = 0
  /\ pc' = "loop"
  /\ UNCHANGED <<sum, file, thr, J, Fx, op, args, exc, steps, t, y, iter, trace, out, ret>>

\* Mutant of gaussian_elimination_column: A and b are taken by reference,
\* so the swaps and eliminations are made in the caller's matrix and vector
gaussian_elimination_column_by_reference ==
  /\ op = "gaussian_elimination" /\ pc = "loop" /\ i < Len(A)
  /\ LET s == GaussColumn(A, b, i + 1)
     IN A' = s.A /\ b' = s.b /\ args' = [args EXCEPT !.A = s.A, !.b = s.b]
  /\ i' = i + 1
  /\ UNCHANGED <<sum, file, thr, J, Fx, op, pc, exc, steps, t, y, x, iter, trace, out, ret>>

gaussian_elimination_column ==
  /\ op = "gaussian_elimination" /\ pc = "loop" /\ i < Len(A)
  /\ \E s \in {GaussColumn(A, b, i + 1)} : A' = s.A /\ b' = s.b
  /\ i' = i + 1
  /\ UNCHANGED <<sum, file, thr, J, Fx, op, args, pc, exc, steps, t, y, x, iter, trace, out, ret>>

gaussian_elimination_back ==
  /\ op = "gaussian_elimination" /\ pc = "loop" /\ ~(i < Len(A))
  /\ x' = BackSubstitution(A, b, Len(A), x)
  /\ ret' = x'
  /\ pc' = "returned"
  /\ UNCHANGED <<sum, file, thr, J, Fx, op, args, exc, steps, t, y, i, iter, A, b, trace, out>>

(***************************************************************************)
(* forward_difference called directly                                      *)
(***************************************************************************)
\* J is n x n, value-initialised; f is evaluated at x
forward_difference_enter ==
  /\ op = "forward_difference" /\ pc = "entry"
  /\ J' = [r \in 1..Len(args.x) |-> [c \in 1..Len(args.x) |-> Zero]]
  /\ Fx' = EvalRes(args.f, args.x)
  /\ trace' = Append(trace, ResCall(args.f, args.x))
  /\ i' = 0
  /\ pc' = "loop"
  /\ UNCHANGED <<sum, file, thr, op, args, exc, steps, t, y, x, iter, A, b, out, ret>>

\* One iteration of the loop over the coordinates.  When f returns fewer
\* than n entries the reads FxPerturbed[j] and Fx[j] run past the end of the
\* vectors: the behaviour is undefined, the call may fill J with whatever
\* the reads yield or be stopped by the system.
forward_difference_column ==
  /\ op = "forward_difference" /\ pc = "loop" /\ i < Len(args.x)
  /\ \E xP \in {xPerturbed(args.x, i + 1, args.h)},
        FxPerturbed \in {EvalRes(args.f, xPerturbed(args.x, i + 1, args.h))} :
        /\ trace' = Append(trace, ResCall(args.f, xP))
        /\ \/ /\ \E u1 \in Garbage, u2 \in Garbage :
                    J' = FDColumn(J, FxPerturbed, Fx, i + 1, args.h, u1, u2)
              /\ i' = i + 1
              /\ pc' = "loop"
           \/ /\ Len(FxPerturbed) < Len(args.x)
              /\ pc' = "crashed"
              /\ UNCHANGED <<J, i>>
  /\ UNCHANGED <<sum, file, thr, Fx, op, args, exc, steps, t, y, x, iter, A, b, out, ret>>

forward_difference_return ==
  /\ op = "forward_difference" /\ pc = "loop" /\ ~(i < Len(args.x))
  /\ ret' = J
  /\ pc' = "returned"
  /\ UNCHANGED <<sum, file, thr, J, Fx, op, args, exc, steps, t, y, i, x, iter, A, b, trace, out>>

(***************************************************************************)
(* Specification                                                           *)
(***************************************************************************)
Next ==
  \/ euler_forward_enter
  \/ euler_forward_step
  \/ euler_forward_return
  \/ runge_kutta_4_enter
  \/ runge_kutta_4_step
  \/ runge_kutta_4_return
  \/ euler_backward_enter
  \/ euler_backward_step
  \/ euler_backward_return
  \/ newton_raphson_enter
  \/ newton_raphson_iteration
  \/ newton_raphson_exhausted
  \/ gaussian_elimination_enter
  \/ gaussian_elimination_column
  \/ gaussian_elimination_back
  \/ forward_difference_enter
  \/ forward_difference_column
  \/ forward_difference_return

Spec == Init /\ [][Next]_vars

(***************************************************************************)
(* The same calls on binary64 arguments.  Every action of Next is the same *)
(* code; only the numbers handed to it differ, and with them the rounding  *)
(* of each operation.                                                      *)
(***************************************************************************)
DVec(v) == Vec([j \in 1..Len(v) |-> DOfRat(v[j])])

DMat(M) == Vec([r \in 1..Len(M) |-> DVec(M[r])])

\* maxIter of the tests of newton_raphson on x^2 - 2
NewtonTestMaxIter == 50

\* Step sizes: 1/4, 1/2 and 2 are binary64 values, 1/10 and 3/10 are not
DoubleHs == {<<-1, 2>>, <<1, 10>>, <<1, 4>>, <<3, 10>>, Half, Two}

DoubleT1s == {Zero, Half, <<3, 4>>, One}

DoubleStepperCalls ==
  {[op |-> c[1], f |-> [kind |-> c[2]], t0 |-> DOfRat(c[3]), t1 |-> DOfRat(c[4]),
    y0 |-> DVec(<<One>>), h |-> DOfRat(c[5])] :
     c \in {q \in Steppers \X {"one", "time", "decay"} \X {Zero, Half}
                    \X DoubleT1s \X DoubleHs :
              q[1] = "euler_backward" => q[2] = "decay" /\ q[3] = Zero}}

DoubleNewtonCalls ==
  {[op |-> "newton_raphson", f |-> UserRes(c[1][1]), x0 |-> DVec(c[1][2]),
    useJ |-> c[2], maxIter |-> c[3], tolExp |-> NewtonDefaultTolExp] :
     c \in {<<"sq2", <<One>>>>, <<"shift3", <<Zero>>>>, <<"aff2", <<Zero, Zero>>>>}
             \X BOOLEAN \X {0, 2, NewtonTestMaxIter}}

\* Singular matrices among them: with two proportional rows whose
\* elimination is exact (1 2 / 2 4), or leaves a rounding error in place of
\* the zero pivot (49 49 / 1 1, and the 3 x 3 matrix of 1..9)
DoubleMatrices ==
  {<<<<Zero>>>>, <<<<Two>>>>,
   <<<<Two, One>>, <<One, R(3)>>>>,
   <<<<One, Two>>, <<Two, R(4)>>>>,
   <<<<Zero, Zero>>, <<Zero, Zero>>>>,
   <<<<R(3), R(3)>>, <<One, One>>>>,
   <<<<R(49), R(49)>>, <<One, One>>>>,
   <<<<<<1, 10>>, <<3, 10>>>>, <<<<1, 5>>, <<3, 5>>>>>>,
   <<<<One, Two, R(3)>>, <<R(4), R(5), R(6)>>, <<R(7), R(8), R(9)>>>>,
   <<<<One, One, One>>, <<One, One, One>>, <<Zero, Zero, One>>>>,
   <<<<Two, One, R(-1)>>, <<R(-3), R(-1), Two>>, <<R(-2), One, Two>>>>}

DoubleGaussCalls ==
  {[op |-> "gaussian_elimination", A |-> DMat(c[1]), b |-> DVec(c[2])] :
     c \in UNION {{M} \X {[k \in 1..Len(M) |-> R(k)], [k \in 1..Len(M) |-> Zero]} :
                    M \in DoubleMatrices}}

DoubleFDCalls ==
  {[op |-> "forward_difference", f |-> UserRes(c[1]), x |-> DVec(c[2]), h |-> DOfRat(c[3])] :
     c \in {q \in {"shift3", "sq2", "aff2", "tall", "wide"}
                    \X {<<One>>, <<R(3)>>, <<One, Two>>} \X {Half, FDStep} :
              Len(q[2]) = (IF q[1] \in {"aff2", "wide"} THEN 2 ELSE 1)}}

InitDouble ==
  /\ \A q \in DOMAIN DLiteral : DLiteral[q] = DOfRat(q)
  /\ args \in DoubleStepperCalls \cup DoubleNewtonCalls \cup DoubleGaussCalls
                \cup DoubleFDCalls
  /\ op = args.op
  /\ pc = "entry"
  /\ exc = ""
  /\ steps = 0
  /\ t = <<>>
  /\ y = <<>>
  /\ i = 0
  /\ x = <<>>
  /\ iter = 0
  /\ A = <<>>
  /\ b = <<>>
  /\ trace = <<>>
  /\ out = <<>>
  /\ ret = <<>>
  /\ J = <<>>
  /\ Fx = <<>>
  /\ sum = Zero
  /\ file = NoFile
  /\ thr = <<>>

SpecDouble == InitDouble /\ [][Next]_vars

(***************************************************************************)
(* The utilities vec_norm and to_csv                                       *)
(***************************************************************************)
\* 2^k as a binary64 value
DTwoTo(k) == [DLiteral[One] EXCEPT ![4] = k - (Prec - 1)]

\* The vectors handed to vec_norm: those of the tests, vectors whose sum of
\* squares is not the square of a double, and vectors with huge, infinite
\* and NaN elements
VecNormVectors ==
  {DVec(v) : v \in {<<>>, <<Zero, Zero, Zero>>, <<R(3)>>, <<One, Two, Two>>,
                    <<R(-3), R(-4)>>, <<R(3), R(4)>>, <<R(3), R(-4)>>,
                    <<One, One>>, <<R(-1), One>>, <<One, R(-1)>>, <<Half>>,
                    <<<<1, 10>>, <<3, 10>>>>, <<<<-1, 10>>, <<3, 10>>>>,
                    <<Two, One, R(-1)>>, <<NaN>>, <<PosInf, One>>}}
    \cup {<<DTwoTo(600), DTwoTo(600)>>, <<DTwoTo(-600), Neg(DTwoTo(-600))>>}

VecNormCalls == {[op |-> "vec_norm", v |-> v] : v \in VecNormVectors}

\* Mutant of VecNormTerm: val * |val|
VecNormTermSigned(val) == Mul(val, Fabs(val))

\* The term val * val added to sum
VecNormTerm(val) == Mul(val, val)

vec_norm_enter ==
  /\ op = "vec_norm" /\ pc = "entry"
  /\ sum' = DZero
  /\ i' = 0
  /\ pc' = "loop"
  /\ UNCHANGED <<file, thr, J, Fx, op, args, exc, steps, t, y, x, iter, A, b, trace, out, ret>>

vec_norm_accumulate ==
  /\ op = "vec_norm" /\ pc = "loop" /\ i < Len(args.v)
  /\ sum' = Add(sum, VecNormTerm(args.v[i + 1]))
  /\ i' = i + 1
  /\ UNCHANGED <<file, thr, J, Fx, op, args, pc, exc, steps, t, y, x, iter, A, b, trace, out, ret>>

vec_norm_return ==
  /\ op = "vec_norm" /\ pc = "loop" /\ i = Len(args.v)
  /\ ret' = dSqrt(sum)
  /\ pc' = "returned"
  /\ UNCHANGED <<sum, file, thr, J, Fx, op, args, exc, steps, t, y, i, x, iter, A, b, trace, out>>

(***************************************************************************)
(* operator<< on a double.  A stream that was given no format prints a     *)
(* double like printf("%g") with a precision of 6 significant digits,      *)
(* rounding the exact binary value half to even.  Text is a sequence of    *)
(* characters.  The sign of a zero and of a NaN is not part of the model's *)
(* values: the zeros printed are +0.0 and no NaN is printed.               *)
(***************************************************************************)
StreamPrecision == 6

DigitChars == <<"0", "1", "2", "3", "4", "5", "6", "7", "8", "9">>

\* The decimal digits of n >= 0
RECURSIVE Digits(_)
Digits(n) ==
  IF n < 10 THEN <<DigitChars[n + 1]>>
  ELSE Append(Digits(n \div 10), DigitChars[(n % 10) + 1])

\* 10^k for k >= 0, and 1 for k < 0
RECURSIVE BPow10(_)
BPow10(k) == IF k <= 0 THEN <<1>> ELSE BMulSmall(BPow10(k - 1), 10)

ScaledBy(N, D) == Append(BDivMod(N, D), D)

\* |v| * 10^p as <<quotient, remainder, divisor>>
Scaled(v, p) ==
  ScaledBy(BShl(BMul(v[3], BPow10(p)), Max(v[4], 0)),
           BShl(BPow10(-p), Max(-v[4], 0)))

\* The X with 10^X <= |v| < 10^(X + 1), searched from a first guess
RECURSIVE DecimalExponentFrom(_, _)
DecimalExponentStep(v, X, q) ==
  IF q = <<>> THEN DecimalExponentFrom(v, X - 1)
  ELSE IF BCmp(q, <<10>>) >= 0 THEN DecimalExponentFrom(v, X + 1)
  ELSE X

DecimalExponentFrom(v, X) == DecimalExponentStep(v, X, Scaled(v, -X)[1])

\* The quotient of s rounded to the nearest integer, a tie to the even one
RoundedDigits(s) ==
  LET c == BCmp(BShl(s[2], 1), s[3])
  IN BToInt(IF c > 0 \/ (c = 0 /\ BBit(s[1], 0) = 1) THEN BAdd(s[1], <<1>>) ELSE s[1])

\* <<X, S>>: |v| rounded to StreamPrecision digits is S * 10^(X + 1 - StreamPrecision)
SignificantFrom(X, S) ==
  IF S >= 10 ^ StreamPrecision THEN <<X + 1, S \div 10>> ELSE <<X, S>>

Significant(v, X) ==
  SignificantFrom(X, RoundedDigits(Scaled(v, StreamPrecision - 1 - X)))

RECURSIVE StripZeros(_)
StripZeros(s) ==
  IF s # <<>> /\ s[Len(s)] = "0" THEN StripZeros(SubSeq(s, 1, Len(s) - 1)) ELSE s

FractionPart(s) == IF s = <<>> THEN <<>> ELSE <<".">> \o s

FixedText(X, sig) ==
  IF X >= 0
    THEN SubSeq(sig, 1, X + 1) \o FractionPart(StripZeros(SubSeq(sig, X + 2, Len(sig))))
  ELSE <<"0", ".">> \o [j \in 1..(-X - 1) |-> "0"] \o StripZeros(sig)

ScientificText(X, sig) ==
  <<sig[1]>> \o FractionPart(StripZeros(Tail(sig)))
    \o <<"e", IF X < 0 THEN "-" ELSE "+">>
    \o (IF Abs(X) < 10 THEN <<"0">> ELSE <<>>) \o Digits(Abs(X))

GeneralText(X, sig) ==
  IF X >= -4 /\ X < StreamPrecision THEN FixedText(X, sig) ELSE ScientificText(X, sig)

FormatFinite(xs) == GeneralText(xs[1], Digits(xs[2]))

\* The characters that file << v appends for a double v
Format(v) ==
  (IF v[1] < 0 THEN <<"-">> ELSE <<>>)
    \o (IF dIsInf(v) THEN <<"i", "n", "f">>
        ELSE IF dIsZero(v) THEN <<"0">>
        ELSE FormatFinite(Significant(v, DecimalExponentFrom(v, 0))))

(***************************************************************************)
(* to_csv(filename, t, y).  The destination is one file: whether it exists *)
(* and the characters in it.  An std::ofstream opens a path whose          *)
(* directory exists and that may be written, creating the file or emptying *)
(* the one that is there; the open fails for a path in a missing directory *)
(* and for a file that may not be written.                                 *)
(***************************************************************************)
OldFile == [exists |-> TRUE, text |-> <<"o", "l", "d", "\n">>]

CsvFiles == {"test_output.csv", "/nonexistent_dir/output.csv", "read_only.csv"}

Opens(filename) == filename = "test_output.csv"

\* What is at the path before the call
FilesBefore(filename) ==
  IF filename = "/nonexistent_dir/output.csv" THEN {NoFile}
  ELSE IF filename = "read_only.csv" THEN {OldFile}
  ELSE {NoFile, OldFile}

CsvData ==
  { <<<<Zero, One, Two>>, <<<<One, Two, R(3)>>, <<R(4), R(5), Six>>, <<R(7), R(8), R(9)>>>>>>,
    <<<<Half>>, <<<<<<157, 50>>>>>>>>,
    <<<<R(-1), <<-3, 2>>>>, <<<<R(-3), R(-4)>>, <<R(-5), PosInf>>>>>>,
    <<<<Zero>>, <<<<Zero, Zero>>>>>>,
    <<<<<<1, 3>>, R(1234567), <<1, 16384>>>>,
      <<<<<<200001, 2>>, <<1, 8>>>>, <<<<1999999, 2>>, R(100000)>>,
        <<<<1, 10000>>, <<1, 100000>>>>>>>>,
    <<<<Zero, One>>, <<<<One, Two>>, <<R(3)>>>>>>,
    <<<<Zero, One>>, <<<<One>>, <<Two, R(3)>>>>>>,
    <<<<Zero>>, <<<<One>>, <<Two>>>>>>,
    <<<<Zero, One, Two>>, <<<<One>>>>>>,
    <<<<Zero, One>>, <<<<>>, <<>>>>>>,
    <<<<>>, <<>>>>,
    <<<<Zero>>, <<>>>> }

ToCsvCalls ==
  {[op |-> "to_csv", filename |-> c[1], t |-> DVec(c[2][1]), y |-> DMat(c[2][2])] :
     c \in CsvFiles \X CsvData}

\* What a read past the end of a vector can give: a size, a double
GarbageSizes == {0, 2}

GarbageDoubles == {DZero, DOfRat(<<157, 50>>)}

RECURSIVE HeaderNamesFrom(_, _)
HeaderNamesFrom(j, k) ==
  IF j >= k THEN <<>> ELSE <<",", "y">> \o Digits(j) \o HeaderNamesFrom(j + 1, k)

\* The header with its columns numbered from 1
HeaderTextFromOne(k) == <<"t">> \o HeaderNamesFrom(1, k + 1) \o <<"\n">>

\* "t", then ",y<i>" for i < k, then a newline
HeaderText(k) == <<"t">> \o HeaderNamesFrom(0, k) \o <<"\n">>

RECURSIVE RowValues(_)
RowValues(row) ==
  IF row = <<>> THEN <<>> ELSE <<",">> \o Format(row[1]) \o RowValues(Tail(row))

\* t[i], then "," and the value for every value of y[i], then a newline
RowText(tv, row) == Format(tv) \o RowValues(row) \o <<"\n">>

\* std::ofstream file(filename); if (!file.is_open()) return 1;
to_csv_open ==
  /\ op = "to_csv" /\ pc = "entry"
  /\ IF Opens(args.filename)
       THEN file' = [exists |-> TRUE, text |-> <<>>] /\ pc' = "header" /\ ret' = ret
     ELSE file' = file /\ pc' = "returned" /\ ret' = 1
  /\ UNCHANGED <<sum, thr, J, Fx, op, args, exc, steps, t, y, i, x, iter, A, b, trace, out>>

\* The header line.  y[0] of an empty y is a read past the end: the call
\* crashes with what it buffered lost, or goes on with whatever size it read.
to_csv_header ==
  /\ op = "to_csv" /\ pc = "header"
  /\ \/ /\ \E k \in (IF args.y # <<>> THEN {Len(args.y[1])} ELSE GarbageSizes) :
             file' = [file EXCEPT !.text = @ \o HeaderText(k)]
        /\ pc' = "rows" /\ i' = 0
     \/ /\ args.y = <<>>
        /\ pc' = "crashed" /\ UNCHANGED <<file, i>>
  /\ UNCHANGED <<sum, thr, J, Fx, op, args, exc, steps, t, y, x, iter, A, b, trace, out, ret>>

\* One data row.  t[i] past the end of t is a read past the end.
to_csv_row ==
  /\ op = "to_csv" /\ pc = "rows" /\ i < Len(args.y)
  /\ \/ /\ \E tv \in (IF i < Len(args.t) THEN {args.t[i + 1]} ELSE GarbageDoubles) :
             file' = [file EXCEPT !.text = @ \o RowText(tv, args.y[i + 1])]
        /\ i' = i + 1 /\ pc' = pc
     \/ /\ i >= Len(args.t)
        /\ file' = [file EXCEPT !.text = <<>>]
        /\ pc' = "crashed" /\ i' = i
  /\ UNCHANGED <<sum, thr, J, Fx, op, args, exc, steps, t, y, x, iter, A, b, trace, out, ret>>

\* return 0; the stream is flushed and closed as it goes out of scope
to_csv_return ==
  /\ op = "to_csv" /\ pc = "rows" /\ i = Len(args.y)
  /\ ret' = 0 /\ pc' = "returned"
  /\ UNCHANGED <<sum, file, thr, J, Fx, op, args, exc, steps, t, y, i, x, iter, A, b, trace, out>>

InitUtils ==
  /\ args \in VecNormCalls \cup ToCsvCalls
  /\ op = args.op
  /\ file \in (IF op = "to_csv" THEN FilesBefore(args.filename) ELSE {NoFile})
  /\ pc = "entry"
  /\ exc = "" /\ steps = 0 /\ i = 0 /\ iter = 0
  /\ t = <<>> /\ y = <<>> /\ x = <<>>
  /\ A = <<>> /\ b = <<>> /\ J = <<>> /\ Fx = <<>>
  /\ trace = <<>> /\ out = <<>> /\ ret = <<>>
  /\ sum = DZero
  /\ thr = <<>>

NextUtils ==
  \/ vec_norm_enter
  \/ vec_norm_accumulate
  \/ vec_norm_return
  \/ to_csv_open
  \/ to_csv_header
  \/ to_csv_row
  \/ to_csv_return

SpecUtils == InitUtils /\ [][NextUtils]_vars

(***************************************************************************)
(* Concurrent calls.  Each thread makes one call of newton_raphson or of   *)
(* gaussian_elimination on its own arguments; thr[p] holds the locals of   *)
(* the call of thread p, which live on that thread's stack.  std::cout is  *)
(* the one stream of the process: out holds the pieces inserted into it,   *)
(* each with the thread that inserted it.                                  *)
(***************************************************************************)
NThreads == 2

Threads == 1..NThreads

ThreadCalls ==
  {[op |-> "newton_raphson", f |-> UserRes("shift3"), x0 |-> <<v>>, useJ |-> u,
    maxIter |-> m, tolExp |-> NewtonDefaultTolExp, A |-> <<>>, b |-> <<>>] :
     v \in {R(3), Zero}, u \in BOOLEAN, m \in {0, MaxIter}}
    \cup {[op |-> "gaussian_elimination", f |-> UserRes("shift3"), x0 |-> <<>>,
           useJ |-> FALSE, maxIter |-> 0, tolExp |-> 0, A |-> M, b |-> <<One, Two>>] :
            M \in {<< <<Zero, One>>, <<One, One>> >>, << <<Two, One>>, <<One, Two>> >>}}

\* The locals of a call that has not started
ThreadEntry(c) ==
  [op |-> c.op, args |-> c, pc |-> "entry", x |-> <<>>, iter |-> 0,
   A |-> <<>>, b |-> <<>>, i |-> 0, ret |-> <<>>]

InitThreads ==
  /\ thr \in [Threads -> {ThreadEntry(c) : c \in ThreadCalls}]
  /\ out = <<>>
  /\ op = "threads"
  /\ args = <<>>
  /\ pc = "threads"
  /\ exc = ""
  /\ steps = 0
  /\ t = <<>>
  /\ y = <<>>
  /\ i = 0
  /\ x = <<>>
  /\ iter = 0
  /\ A = <<>>
  /\ b = <<>>
  /\ trace = <<>>
  /\ ret = <<>>
  /\ J = <<>>
  /\ Fx = <<>>
  /\ sum = Zero
  /\ file = NoFile

\* A step of thread p that touches the locals of its call only
ThreadLocalStep(p, locals) ==
  /\ thr' = [thr EXCEPT ![p] = locals]
  /\ UNCHANGED <<sum, file, J, Fx, op, args, pc, exc, steps, t, y, i, x, iter, A, b, trace, out, ret>>

thread_newton_enter ==
  \E p \in Threads :
     /\ thr[p].op = "newton_raphson" /\ thr[p].pc = "entry"
     /\ ThreadLocalStep(p, [thr[p] EXCEPT !.x = thr[p].args.x0, !.iter = 0, !.pc = "loop"])

\* One execution of the loop body up to the update or to the convergence
\* report
thread_newton_iteration ==
  \E p \in Threads :
     /\ thr[p].op = "newton_raphson" /\ thr[p].pc = "loop"
     /\ LoopContinues(thr[p].iter, thr[p].args.maxIter)
     /\ \E st \in {NewtonBody(thr[p].args.f, thr[p].args.useJ, thr[p].args.tolExp,
                                [x |-> thr[p].x, iter |-> thr[p].iter, done |-> FALSE,
                                 trace |-> <<>>, out |-> <<>>])} :
           ThreadLocalStep(p, [thr[p] EXCEPT !.x = st.x, !.iter = st.iter,
                                             !.pc = IF st.done THEN "report1" ELSE "loop"])

\* The three insertions of std::cout << "Converged in " << iter <<
\* " iterations.\n", each a separate call on the stream of the process, and
\* the return that follows the last
thread_newton_report ==
  \E p \in Threads :
     /\ thr[p].op = "newton_raphson"
     /\ thr[p].pc \in {"report1", "report2", "report3"}
     /\ out' = Append(out,
                 [by |-> p,
                  text |-> CASE thr[p].pc = "report1" -> <<"Converged in ">>
                             [] thr[p].pc = "report2" -> <<thr[p].iter>>
                             [] thr[p].pc = "report3" -> <<" iterations.">>])
     /\ thr' = [thr EXCEPT ![p] =
                  CASE thr[p].pc = "report1" -> [thr[p] EXCEPT !.pc = "report2"]
                    [] thr[p].pc = "report2" -> [thr[p] EXCEPT !.pc = "report3"]
                    [] thr[p].pc = "report3" ->
                         [thr[p] EXCEPT !.pc = "returned", !.ret = thr[p].x]]
     /\ UNCHANGED <<sum, file, J, Fx, op, args, pc, exc, steps, t, y, i, x, iter, A, b, trace, ret>>

thread_newton_exhausted ==
  \E p \in Threads :
     /\ thr[p].op = "newton_raphson" /\ thr[p].pc = "loop"
     /\ ~LoopContinues(thr[p].iter, thr[p].args.maxIter)
     /\ ThreadLocalStep(p, [thr[p] EXCEPT !.pc = "returned", !.ret = thr[p].x])

thread_gaussian_elimination_enter ==
  \E p \in Threads :
     /\ thr[p].op = "gaussian_elimination" /\ thr[p].pc = "entry"
     /\ ThreadLocalStep(p, [thr[p] EXCEPT !.A = thr[p].args.A, !.b = thr[p].args.b,
                                          !.x = [k \in 1..Len(thr[p].args.A) |-> Zero],
                                          !.i = 0, !.pc = "loop"])

thread_gaussian_elimination_column ==
  \E p \in Threads :
     /\ thr[p].op = "gaussian_elimination" /\ thr[p].pc = "loop"
     /\ thr[p].i < Len(thr[p].A)
     /\ \E s \in {GaussColumn(thr[p].A, thr[p].b, thr[p].i + 1)} :
           ThreadLocalStep(p, [thr[p] EXCEPT !.A = s.A, !.b = s.b, !.i = thr[p].i + 1])

thread_gaussian_elimination_back ==
  \E p \in Threads :
     /\ thr[p].op = "gaussian_elimination" /\ thr[p].pc = "loop"
     /\ ~(thr[p].i < Len(thr[p].A))
     /\ \E xs \in {BackSubstitution(thr[p].A, thr[p].b, Len(thr[p].A), thr[p].x)} :
           ThreadLocalStep(p, [thr[p] EXCEPT !.x = xs, !.ret = xs, !.pc = "returned"])

NextThreads ==
  \/ thread_newton_enter
  \/ thread_newton_iteration
  \/ thread_newton_report
  \/ thread_newton_exhausted
  \/ thread_gaussian_elimination_enter
  \/ thread_gaussian_elimination_column
  \/ thread_gaussian_elimination_back

SpecThreads == InitThreads /\ [][NextThreads]_vars

(***************************************************************************)
(* Properties.  The expected values are stated from the mathematics, with  *)
(* the arithmetic of the first section, and not with the operators that    *)
(* model the solvers.                                                      *)
(***************************************************************************)
IsStepper == op \in Steppers

Running == pc \in {"loop", "returned"}

ValidArgs == Lt(Zero, args.h) /\ Lt(args.t0, args.t1)

\* The binary64 operation p + q rounds: its result is not the exact sum
AddRounds(p, q) ==
  /\ IsD(p) /\ IsD(q) /\ ~dIsZero(p) /\ ~dIsZero(q)
  /\ LET u == AddExact(p, q) IN Inexact(u[2], u[3], FALSE)

\* The binary64 operation p / q rounds
DivRounds(p, q) ==
  /\ IsD(p) /\ IsD(q) /\ ~dIsZero(p) /\ ~dIsZero(q)
  /\ LET u == DivExact(p, q) IN Inexact(u[2], u[3], u[4])

\* p + q without rounding (a value whose significand may exceed 53 bits)
ExactSum(p, q) ==
  IF ~IsD(p) /\ ~IsD(q) THEN Add(p, q)
  ELSE LET u == AddExact(ToD(p), ToD(q))
       IN IF u[2] = <<>> THEN DZero ELSE <<u[1], -1, u[2], u[3]>>

\* The integer n as a value of the arithmetic of q
Num(n, q) == IF IsD(q) THEN DOfRat(R(n)) ELSE R(n)

\* n is the least integer with (t1 - t0) / h <= n
IsCeilQuotient(n, t0, t1, h) ==
  LET q == Div(Sub(t1, t0), h)
  IN Le(q, Num(n, q)) /\ Lt(Num(n - 1, q), q)

\* The returned Solution has n + 1 samples, starts at (t0, y0), and each
\* time is the sum of the time before it and h: a grid that depends on
\* (t0, h, n) only
GridOf(n) ==
  /\ Len(ret.t) = n + 1
  /\ Len(ret.y) = n + 1
  /\ ret.t[1] = args.t0
  /\ ret.y[1] = args.y0
  /\ \A k \in 1..n : ret.t[k + 1] = Add(ret.t[k], args.h)

\* C1 as claimed: a stepper called with h > 0 and t1 > t0 does not throw,
\* and returns a Solution with len(t) = len(y) = ceil((t1 - t0) / h) + 1,
\* t[0] = t0, y[0] = y0 and t[k+1] - t[k] = h for every k; the grid depends
\* on (t0, t1, h) only, so the three steppers return the same grid and the
\* same number of samples.
C1_SolutionShape ==
  (IsStepper /\ ValidArgs) =>
     /\ pc # "threw"
     /\ pc = "returned" =>
          \E n \in 0..Len(ret.t) :
             /\ IsCeilQuotient(n, args.t0, args.t1, args.h)
             /\ GridOf(n)
             /\ \A k \in 1..n : Same(Sub(ret.t[k + 1], ret.t[k]), args.h)

\* C1: the same, with each t[k+1] the binary64 sum t[k] + h: the difference
\* t[k+1] - t[k] is h wherever that sum was not rounded.
C1_SolutionShapeRounded ==
  (IsStepper /\ ValidArgs) =>
     /\ pc # "threw"
     /\ pc = "returned" =>
          \E n \in 0..Len(ret.t) :
             /\ IsCeilQuotient(n, args.t0, args.t1, args.h)
             /\ GridOf(n)
             /\ \A k \in 1..n :
                  ~AddRounds(ret.t[k], args.h) =>
                     Same(Sub(ret.t[k + 1], ret.t[k]), args.h)

\* C1 witness: euler_backward has returned a grid of five samples for
\* t0 = 0, t1 = 1 and h = 0.3, which does not divide the interval; the sum
\* 0.6 + 0.3 was rounded and the difference of its two times is not h
C1_Witness ==
  /\ op = "euler_backward" /\ pc = "returned"
  /\ args.t0 = DZero /\ args.t1 = DOfRat(One) /\ args.h = DOfRat(<<3, 10>>)
  /\ Len(ret.t) = 5
  /\ ~AddRounds(ret.t[2], args.h) /\ Same(Sub(ret.t[3], ret.t[2]), args.h)
  /\ AddRounds(ret.t[3], args.h) /\ ~Same(Sub(ret.t[4], ret.t[3]), args.h)

\* C2: a stepper called with h <= 0 or t1 <= t0 throws invalid_argument;
\* the derivative function is never evaluated and nothing is returned.
C2_InvalidArguments ==
  (IsStepper /\ pc # "entry" /\ (Le(args.h, Zero) \/ Le(args.t1, args.t0))) =>
     /\ pc = "threw"
     /\ exc # ""
     /\ trace = <<>>
     /\ ret = <<>>

\* C2 witness: a stepper has thrown for t1 = t0 with a positive step
C2_Witness ==
  /\ IsStepper /\ pc = "threw"
  /\ Lt(Zero, args.h) /\ args.t1 = args.t0

\* The determinant of a matrix of order at most 3
Det(M) ==
  CASE Len(M) = 1 -> M[1][1]
    [] Len(M) = 2 -> Sub(Mul(M[1][1], M[2][2]), Mul(M[1][2], M[2][1]))
    [] Len(M) = 3 ->
         Add(Sub(Mul(M[1][1], Sub(Mul(M[2][2], M[3][3]), Mul(M[2][3], M[3][2]))),
                 Mul(M[1][2], Sub(Mul(M[2][1], M[3][3]), Mul(M[2][3], M[3][1])))),
             Mul(M[1][3], Sub(Mul(M[2][1], M[3][2]), Mul(M[2][2], M[3][1]))))

Nonsingular(M) == Det(M) # Zero

Identity(n) == [r \in 1..n |-> [c \in 1..n |-> IF r = c THEN One ELSE Zero]]

\* C3: for a nonsingular A, gaussian_elimination(A, b) returns a vector x of
\* length n with A * x = b; for the identity matrix it returns b.
C3_SolvesSystem ==
  (op = "gaussian_elimination" /\ pc = "returned" /\ Nonsingular(args.A)) =>
     /\ Len(ret) = Len(args.A)
     /\ MatVec(args.A, ret) = args.b
     /\ args.A = Identity(Len(args.A)) => ret = args.b

\* C3 witness: a nonsingular 3 x 3 system whose first diagonal entry is not
\* the largest of its column has been solved
C3_Witness ==
  /\ op = "gaussian_elimination" /\ pc = "returned"
  /\ Len(args.A) = 3 /\ Nonsingular(args.A)
  /\ Lt(Fabs(args.A[1][1]), Fabs(args.A[2][1]))

IsNewton == op = "newton_raphson"

\* The Euclidean norm of v is below 10^(-e): the sum of squares is below
\* 10^(-2e)
TolMet(v, e) ==
  LET q == SumSeq([j \in 1..Len(v) |-> Mul(v[j], v[j])])
  IN IsFinite(q) /\ LtPow10(q[1], q[2], 2 * e)

\* C4: when the norm of f(x0) is below tol and maxIter >= 1, newton_raphson
\* returns x0 on iteration 0: f has been evaluated exactly once, at x0, and
\* neither J_f, forward_difference nor gaussian_elimination has been called.
C4_AlreadyAtRoot ==
  (IsNewton /\ args.maxIter >= 1 /\ TolMet(EvalRes(args.f, args.x0), args.tolExp)) =>
     /\ pc = "loop" => (iter = 0 /\ trace = <<>>)
     /\ pc = "returned" =>
          /\ ret = args.x0
          /\ iter = 0
          /\ trace = <<[fn |-> "f", args |-> <<args.x0>>]>>
          /\ out = <<Converged(0)>>

\* C4 witness: a call has returned on iteration 0 from a point that is
\* within the tolerance of the root but is not the root
C4_Witness ==
  /\ IsNewton /\ pc = "returned" /\ args.maxIter >= 1
  /\ TolMet(EvalRes(args.f, args.x0), args.tolExp)
  /\ EvalRes(args.f, args.x0) # <<Zero>>
  /\ ret = args.x0

\* The forward-difference matrix of g at xx with step 1e-8
DifferenceQuotients(g, xx) ==
  LET hh == <<1, 100000000>>
      moved(c) == [xx EXCEPT ![c] = Add(xx[c], hh)]
  IN [r \in 1..Len(xx) |->
        [c \in 1..Len(xx) |->
           Div(Sub(EvalRes(g, moved(c))[r], EvalRes(g, xx)[r]), hh)]]

\* The updates made so far: one linear solve per update
Updates == Len(SelectSeq(trace, LAMBDA e : e.fn = "gaussian_elimination"))

\* A call that returns without a success report has made exactly maxIter
\* updates (none when maxIter <= 0), has thrown nothing and returns its
\* current iterate; one update from x0 = 100 on x^2 - 2 gives 50.01, which
\* is farther than 1e-6 from sqrt(2) (2 - 1e-6 > sqrt(2)).
C5_Returned ==
  (IsNewton /\ pc = "returned" /\ out = <<>>) =>
     /\ exc = ""
     /\ ret = x
     /\ iter = (IF args.maxIter < 0 THEN 0 ELSE args.maxIter)
     /\ Updates = iter
     /\ (args.f.kind = "sq2" /\ args.x0 = <<R(100)>> /\ args.maxIter = 1) =>
          (ret = <<<<5001, 100>>>> /\ Le(Two, ret[1]))

\* The iteration starts from x0
C5_Start == (IsNewton /\ pc = "loop" /\ iter = 0) => x = args.x0

\* An iteration that does not return is one Newton update: x' = x + delta
\* with J * delta = -f(x), J being J_f(x) or the forward-difference matrix
C5_Update ==
  (IsNewton /\ pc = "loop" /\ pc' = "loop") =>
     /\ iter' = iter + 1
     /\ LET Jx == IF args.useJ THEN EvalJac(args.f, x)
                  ELSE DifferenceQuotients(args.f, x)
        IN MatVec(Jx, VSub(x', x)) = VNeg(EvalRes(args.f, x))

\* C5: when the convergence test fails on each of the maxIter iterations,
\* newton_raphson raises no error and returns the iterate reached from x0 by
\* exactly maxIter Newton updates x <- x + delta, J * delta = -f(x); with
\* maxIter = 1, f(x) = x^2 - 2 and x0 = 100 the result is not within 1e-6 of
\* sqrt(2).
C5_MaxIterationsReached == [](C5_Returned /\ C5_Start) /\ [][C5_Update]_vars

\* C5 witness: a call with maxIter = 2 has returned after two updates
\* without meeting the tolerance
C5_Witness ==
  /\ IsNewton /\ pc = "returned" /\ out = <<>>
  /\ args.maxIter = 2 /\ Updates = 2
  /\ ~TolMet(EvalRes(args.f, ret), args.tolExp)

\* The backward Euler residual of the step from y[k] to y[k+1] (model
\* indices), evaluated at the stored y[k+1]
StoredResidual(k) ==
  VSub(VSub(y[k + 1], y[k]), VScale(args.h, EvalF(args.f, t[k + 1], y[k + 1])))

\* C6: newton_raphson writes "Converged in k iterations" only when the test
\* norm(f(x)) < tol has passed for the x it returns, and a call that
\* exhausts maxIter writes nothing.  In euler_backward every report line
\* belongs to a step whose stored state meets the tolerance.
C6_NoFalseSuccess ==
  /\ IsNewton =>
       /\ out # <<>> =>
            /\ pc = "returned"
            /\ out = <<Converged(iter)>>
            /\ ret = x
            /\ TolMet(EvalRes(args.f, ret), args.tolExp)
       /\ (pc = "returned" /\ ~(iter < args.maxIter)) => out = <<>>
  /\ (op = "euler_backward" /\ Running) =>
       Len(out) <= Cardinality({k \in 1..i : TolMet(StoredResidual(k), 10)})

\* C6 witness: the call with maxIter = 1 on x^2 - 2 from x0 = 100 has
\* returned a point whose residual is far from meeting the tolerance, and
\* has reported nothing
C6_Witness ==
  /\ IsNewton /\ pc = "returned" /\ args.maxIter = 1
  /\ args.f.kind = "sq2" /\ args.x0 = <<R(100)>>
  /\ Lt(One, Fabs(EvalRes(args.f, ret)[1]))
  /\ out = <<>>

\* The residual function of the step from y[k] to y[k+1] (model indices):
\* F(x) = x - y[k] - h * f(t[k+1], x)
StepResidual(k) ==
  [kind |-> "F", h |-> args.h, f |-> args.f, t1 |-> t[k + 1], y0 |-> y[k]]

\* The Newton solve the claim describes for that step: initial guess y[k],
\* no analytic Jacobian, maxIter = 100, tol = 1e-10
StepSolve(k) == newton_raphson(StepResidual(k), y[k], FALSE, 100, 10, <<>>, <<>>)

RECURSIVE StepTraces(_)
StepTraces(k) == IF k = 0 THEN <<>> ELSE StepTraces(k - 1) \o StepSolve(k).trace

\* C7: at every step of euler_backward the stored y[k+1] is the result of
\* newton_raphson on F(x) = x - y[k] - h * f(t[k+1], x) started from y[k]
\* with maxIter = 100, tol = 1e-10 and no analytic Jacobian; f is evaluated
\* only at the time t[k+1] of the step, never at t0; and when the solve
\* converges the norm of y[k+1] - y[k] - h * f(t[k+1], y[k+1]) is below 1e-10.
C7_BackwardStep ==
  (op = "euler_backward" /\ Running) =>
     /\ \A k \in 1..i :
          LET r == StepSolve(k)
          IN /\ y[k + 1] = r.x
             /\ r.done => TolMet(StoredResidual(k), 10)
             /\ \A e \in 1..Len(r.trace) :
                  /\ r.trace[e].fn # "J_f"
                  /\ r.trace[e].fn = "f" => r.trace[e].args[1] = t[k + 1]
     /\ trace = StepTraces(i)
     /\ \A e \in 1..Len(trace) : trace[e].fn = "f" => trace[e].args[1] # args.t0

\* C7 witness: euler_backward has returned from two steps of a
\* time-dependent derivative, each solved by one Newton update
C7_Witness ==
  /\ op = "euler_backward" /\ pc = "returned"
  /\ args.f.kind = "time" /\ steps = 2
  /\ out = <<Converged(1), Converged(1)>>

\* C8: every step of euler_forward stores y[k+1] = y[k] + h * f(t[k], y[k])
\* componentwise; f is evaluated once per step, at (t[k], y[k]), in
\* increasing k, and never at the final grid point.
C8_ForwardStep ==
  (op = "euler_forward" /\ Running) =>
     /\ \A k \in 1..i :
          y[k + 1] = [j \in 1..Len(y[k]) |->
                        Add(y[k][j], Mul(args.h, EvalF(args.f, t[k], y[k])[j]))]
     /\ trace = [k \in 1..i |-> [fn |-> "f", args |-> <<t[k], y[k]>>]]
     /\ pc = "returned" =>
          \A e \in 1..Len(trace) : trace[e].args[1] # ret.t[steps + 1]

\* C8 witness: euler_forward has returned from three steps of size 1/2 of
\* a time-dependent derivative
C8_Witness ==
  /\ op = "euler_forward" /\ pc = "returned"
  /\ args.f.kind = "time" /\ args.h = Half /\ steps = 3
  /\ Len(trace) = 3

\* The four evaluation points and slopes of the classical Runge-Kutta step
\* from (tk, yk)
Slopes(f, tk, yk, h) ==
  LET h2 == Div(h, Two)
      k1 == EvalF(f, tk, yk)
      p2 == VAdd(yk, VScale(h2, k1))
      k2 == EvalF(f, Add(tk, h2), p2)
      p3 == VAdd(yk, VScale(h2, k2))
      k3 == EvalF(f, Add(tk, h2), p3)
      p4 == VAdd(yk, VScale(h, k3))
      k4 == EvalF(f, Add(tk, h), p4)
  IN [k1 |-> k1, k2 |-> k2, k3 |-> k3, k4 |-> k4,
      calls |-> <<[fn |-> "f", args |-> <<tk, yk>>],
                  [fn |-> "f", args |-> <<Add(tk, h2), p2>>],
                  [fn |-> "f", args |-> <<Add(tk, h2), p3>>],
                  [fn |-> "f", args |-> <<Add(tk, h), p4>>]>>]

\* C9: every step of runge_kutta_4 evaluates f exactly four times, for k1,
\* k2, k3 and k4 in that order, and stores
\* y[k+1] = y[k] + (h/6) * (k1 + 2*k2 + 2*k3 + k4) componentwise.
C9_RungeKuttaStep ==
  (op = "runge_kutta_4" /\ Running) =>
     /\ Len(trace) = 4 * i
     /\ \A k \in 1..i :
          LET s == Slopes(args.f, t[k], y[k], args.h)
          IN /\ SubSeq(trace, 4 * k - 3, 4 * k) = s.calls
             /\ y[k + 1] =
                  VAdd(y[k],
                       VScale(Div(args.h, Six),
                              VAdd(VAdd(VAdd(s.k1, VScale(Two, s.k2)),
                                        VScale(Two, s.k3)), s.k4)))

\* C9 witness: runge_kutta_4 has returned from two steps of the coupled
\* system in two dimensions
C9_Witness ==
  /\ op = "runge_kutta_4" /\ pc = "returned"
  /\ args.f.kind = "cross" /\ Len(args.y0) = 2 /\ steps = 2
  /\ Len(trace) = 8

\* C10: with the zero derivative every stepper keeps y[k] = y0 at every grid
\* index; in euler_backward each Newton solve returns its initial guess on
\* iteration 0, after one evaluation of f.
C10_ZeroDerivative ==
  (IsStepper /\ Running /\ args.f.kind = "zero") =>
     /\ \A k \in 1..(i + 1) : y[k] = args.y0
     /\ op = "euler_backward" =>
          /\ out = [k \in 1..i |-> Converged(0)]
          /\ trace = [k \in 1..i |-> [fn |-> "f", args |-> <<t[k + 1], args.y0>>]]

\* C10 witness: euler_backward has returned from three steps of the zero
\* derivative
C10_Witness ==
  /\ op = "euler_backward" /\ pc = "returned"
  /\ args.f.kind = "zero" /\ steps = 3
  /\ ret.y[4] = args.y0

\* q is an integer
IsInteger(q) ==
  IF IsD(q) THEN dIsZero(q) \/ q[4] >= 0 \/ ~BLowBits(q[3], -q[4]) ELSE q[2] = 1

\* The quotient (t1 - t0) / h is an integer
StepDivides == IsInteger(Div(Sub(args.t1, args.t0), args.h))

\* C11: with f(t, y) = [1], y0 = [0], t0 = 0 and (t1 - t0) / h an integer,
\* euler_forward and runge_kutta_4 return y[last][0] = t1.
C11_ConstantDerivative ==
  (/\ op \in {"euler_forward", "runge_kutta_4"} /\ pc = "returned"
   /\ args.f.kind = "one" /\ args.y0 = <<Zero>> /\ args.t0 = Zero
   /\ StepDivides) =>
     ret.y[Len(ret.y)][1] = args.t1

\* C11 witness: runge_kutta_4 has returned from three steps of size 1/2 of
\* the constant derivative, started at y0 = [0], t0 = 0
C11_Witness ==
  /\ op = "runge_kutta_4" /\ pc = "returned"
  /\ args.f.kind = "one" /\ args.y0 = <<Zero>> /\ args.t0 = Zero
  /\ args.h = Half /\ args.t1 = <<3, 2>> /\ Len(ret.y) = 4

\* The degree of the polynomial derivatives p(t) = t^d
PolyDegree(f) ==
  CASE f.kind = "one" -> 0
    [] f.kind = "time" -> 1
    [] f.kind = "square" -> 2
    [] f.kind = "cube" -> 3
    [] f.kind = "quartic" -> 4

IsPoly(f) == f.kind \in {"one", "time", "square", "cube", "quartic"}

\* The integral of t^d from lo to hi
MonomialIntegral(d, lo, hi) == Div(Sub(Pow(hi, d + 1), Pow(lo, d + 1)), R(d + 1))

\* Every stored y[k][0] of runge_kutta_4 is y0[0] plus the integral of p
\* from t0 to t[k]
RK4ExactOnGrid ==
  \A k \in 1..(i + 1) :
     y[k][1] = Add(args.y0[1], MonomialIntegral(PolyDegree(args.f), args.t0, t[k]))

\* C12 as claimed: runge_kutta_4 is exact at every grid index for
\* f(t, y) = [p(t)] with p of degree at most 4.
C12_ExactToDegreeFour ==
  (op = "runge_kutta_4" /\ Running /\ IsPoly(args.f)) => RK4ExactOnGrid

\* C12 (amended): runge_kutta_4 is exact at every grid index for
\* f(t, y) = [p(t)] with p of degree at most 3: y[k][0] equals y0[0] plus
\* the integral of p from t0 to t[k].
C12_ExactToDegreeThree ==
  (op = "runge_kutta_4" /\ Running /\ IsPoly(args.f) /\ PolyDegree(args.f) <= 3) =>
     RK4ExactOnGrid

\* C12 witness: runge_kutta_4 has returned from two steps of the cubic
\* derivative started at t0 = 1/2
C12_Witness ==
  /\ op = "runge_kutta_4" /\ pc = "returned"
  /\ args.f.kind = "cube" /\ args.t0 = Half /\ steps = 2
  /\ ret.y[3] # ret.y[2]

\* None of t1 - t0, (t1 - t0) / h and the sums t[k] + h of the returned
\* grid was rounded
GridExact ==
  /\ ~AddRounds(args.t1, Neg(args.t0))
  /\ ~DivRounds(Sub(args.t1, args.t0), args.h)
  /\ \A k \in 1..(Len(ret.t) - 1) : ~AddRounds(ret.t[k], args.h)

\* The last step of the returned grid is a full step that reaches t1
LastStepFull ==
  LET n == Len(ret.t) - 1
      last == ret.t[n + 1]
  IN /\ n >= 1
     /\ Same(Sub(last, ret.t[n]), args.h)
     /\ Lt(ret.t[n], args.t1)
     /\ Le(args.t1, last)
     /\ Same(last, args.t1) <=> StepDivides
     /\ ~StepDivides =>
          (Lt(args.t1, last) /\ Lt(ExactSum(last, Neg(args.t1)), args.h))
     /\ Lt(Sub(args.t1, args.t0), args.h) =>
          /\ Len(ret.t) = 2
          /\ Len(ret.y) = 2
          /\ Same(ret.t[2], Add(args.t0, args.h))
          /\ Lt(args.t1, ret.t[2])

\* C13 as claimed: for every valid call of a stepper the last step is a full
\* step of size h, t[steps-1] < t1 <= t[steps]; the final time is t1 exactly
\* when h divides t1 - t0 and otherwise exceeds t1 by less than h; when
\* h > t1 - t0 there are exactly 2 samples and t[1] = t0 + h > t1.
C13_LastStepFull == (IsStepper /\ ValidArgs /\ pc = "returned") => LastStepFull

\* C13: the same for every valid call in which t1 - t0, (t1 - t0) / h and
\* every sum t[k] + h are computed without rounding.
C13_LastStepFullUnrounded ==
  (IsStepper /\ ValidArgs /\ pc = "returned" /\ GridExact) => LastStepFull

\* C13 witness: a stepper has returned the binary64 grid 0, 1/2, 1 for
\* t1 = 3/4 and h = 1/2, computed without rounding: h does not divide the
\* interval and the last time exceeds t1
C13_Witness ==
  /\ IsStepper /\ pc = "returned"
  /\ args.t0 = DZero /\ args.t1 = DOfRat(<<3, 4>>) /\ args.h = DOfRat(Half)
  /\ GridExact /\ ~StepDivides
  /\ ret.t = DVec(<<Zero, Half, One>>)

\* C14: in the Solution returned by a stepper every state vector y[k],
\* 0 <= k <= steps, is populated and has the length of y0 (the derivative
\* functions explored return a vector of the length of their state argument).
C14_StateDimension ==
  (IsStepper /\ Running) =>
     /\ \A k \in 1..(i + 1) : Len(y[k]) = Len(args.y0)
     /\ pc = "returned" =>
          /\ i = steps
          /\ Len(ret.y) = steps + 1
          /\ \A k \in 1..(steps + 1) :
               Len(ret.y[k]) = Len(args.y0) /\ ret.y[k] # <<>>

\* C14 witness: euler_forward has returned four samples of a system of two
\* equations
C14_Witness ==
  /\ op = "euler_forward" /\ pc = "returned"
  /\ Len(args.y0) = 2 /\ Len(ret.y) = 4 /\ Len(ret.y[4]) = 2

\* C15: gaussian_elimination never modifies the caller's matrix A or vector
\* b: no step of a call changes them, so after the return they are
\* element for element what they were before the call, although rows are
\* swapped and eliminated in the solver's own copies.
C15_CallerUnchanged ==
  [][op = "gaussian_elimination" => (args.A' = args.A /\ args.b' = args.b)]_vars

\* C15 witness: a call has returned after swapping and eliminating rows of
\* its copies of a 3 x 3 system, which now differ from the caller's A and b
C15_Witness ==
  /\ op = "gaussian_elimination" /\ pc = "returned"
  /\ Len(args.A) = 3 /\ A # args.A /\ b # args.b
  /\ A[1] = args.A[3]

\* p * q without rounding
ExactProd(p, q) ==
  IF ~IsD(p) /\ ~IsD(q) THEN Mul(p, q)
  ELSE LET u == ToD(p)
           v == ToD(q)
       IN IF u[3] = <<>> \/ v[3] = <<>> THEN DZero
          ELSE <<u[1] * v[1], -1, BMul(u[3], v[3]), u[4] + v[4]>>

\* The determinant of M (n <= 3) without rounding
DetExact(M) ==
  CASE Len(M) = 1 -> M[1][1]
    [] Len(M) = 2 ->
         ExactSum(ExactProd(M[1][1], M[2][2]), Neg(ExactProd(M[1][2], M[2][1])))
    [] Len(M) = 3 ->
         ExactSum(
           ExactSum(
             ExactProd(M[1][1], ExactSum(ExactProd(M[2][2], M[3][3]),
                                         Neg(ExactProd(M[2][3], M[3][2])))),
             Neg(ExactProd(M[1][2], ExactSum(ExactProd(M[2][1], M[3][3]),
                                             Neg(ExactProd(M[2][3], M[3][1])))))),
           ExactProd(M[1][3], ExactSum(ExactProd(M[2][1], M[3][2]),
                                       Neg(ExactProd(M[2][2], M[3][1])))))

\* M is singular: its determinant is exactly zero
Singular(M) == Same(DetExact(M), Zero)

\* Some entry of v is infinite or NaN
HasNonFinite(v) == \E k \in 1..Len(v) : ~IsFinite(v[k])

\* Forward elimination left a pivot that is exactly zero
ZeroPivot == \E k \in 1..Len(A) : Same(A[k][k], Zero)

\* C16 as claimed: for every singular A gaussian_elimination reports no
\* error and returns a vector of length n with an infinite or NaN entry.
C16_SingularGivesNonFinite ==
  (op = "gaussian_elimination" /\ Singular(args.A)) =>
     /\ pc # "threw" /\ exc = ""
     /\ pc = "returned" => (Len(ret) = Len(args.A) /\ HasNonFinite(ret))

\* C16: gaussian_elimination reports no error for any A and returns a vector
\* of length n; whenever forward elimination leaves an exactly zero pivot
\* A[k][k], the vector has an infinite or NaN entry.
C16_ZeroPivotGivesNonFinite ==
  op = "gaussian_elimination" =>
     /\ pc # "threw" /\ exc = ""
     /\ pc = "returned" =>
          (Len(ret) = Len(args.A) /\ (ZeroPivot => HasNonFinite(ret)))

\* C16 witness: the call on the singular matrix (1 2 / 2 4) has returned; the
\* elimination left a zero pivot and the result has a non-finite entry
C16_Witness ==
  /\ op = "gaussian_elimination" /\ pc = "returned"
  /\ args.A = DMat(<< <<One, Two>>, <<Two, R(4)>> >>)
  /\ Singular(args.A) /\ ZeroPivot /\ HasNonFinite(ret)

IsFD == op = "forward_difference"

\* x + h * e_c
Shifted(xx, c, h) == [k \in 1..Len(xx) |-> IF k = c THEN Add(xx[k], h) ELSE xx[k]]

\* (g(x + h * e_c)[r] - g(x)[r]) / h
Quotient(g, xx, h, r, c) ==
  Div(Sub(EvalRes(g, Shifted(xx, c, h))[r], EvalRes(g, xx)[r]), h)

\* For f: R^n -> R^n the returned J is n x n with the forward differences as
\* entries, f has been evaluated n + 1 times, at x and at each x + h * e_c
C17_Returned ==
  (IsFD /\ pc = "returned" /\ Len(EvalRes(args.f, args.x)) = Len(args.x)) =>
     LET n == Len(args.x)
     IN /\ Len(ret) = n
        /\ \A r \in 1..n :
             /\ Len(ret[r]) = n
             /\ \A c \in 1..n : ret[r][c] = Quotient(args.f, args.x, args.h, r, c)
        /\ Len(trace) = n + 1
        /\ trace[1] = [fn |-> "f", args |-> <<args.x>>]
        /\ \A c \in 1..n :
             trace[c + 1] = [fn |-> "f", args |-> <<Shifted(args.x, c, args.h)>>]

\* No step of the call changes the caller's x
C17_Frame == IsFD => args.x' = args.x

\* C17: for f: R^n -> R^n, forward_difference(f, x, h) returns the n x n
\* matrix J[i][j] = (f(x + h*e_j)[i] - f(x)[i]) / h after exactly n + 1
\* evaluations of f, one at x and one at each x + h*e_j, which differs from
\* x in coordinate j only; the caller's x is unchanged.
C17_ForwardDifference == []C17_Returned /\ [][C17_Frame]_vars

\* C17 witness: the Jacobian of the affine function of two variables has
\* been returned for the default step
C17_Witness ==
  /\ IsFD /\ pc = "returned"
  /\ args.f.kind = "aff2" /\ args.x = <<One, Two>> /\ args.h = <<1, 100000000>>
  /\ ret = << <<Zero, One>>, <<One, One>> >>

\* C18 as claimed: for f: R^n -> R^m the returned matrix has m rows and n
\* columns, and its element (i, j) is the forward difference of f_i with
\* respect to x_j.
C18_RectangularJacobian ==
  (IsFD /\ pc = "returned") =>
     LET n == Len(args.x)
         m == Len(EvalRes(args.f, args.x))
     IN /\ Len(ret) = m
        /\ \A r \in 1..Len(ret) : Len(ret[r]) = n
        /\ \A r \in 1..m : \A c \in 1..n :
             r <= Len(ret) => ret[r][c] = Quotient(args.f, args.x, args.h, r, c)

\* Binary64 bounds within 1e-6 of sqrt(2) = 1.41421356...:
\* sqrt(2) - 1e-6 < 1.4142126 and 1.4142145 < sqrt(2) + 1e-6
Sqrt2Low == DOfRat(<<14142126, 10000000>>)

Sqrt2High == DOfRat(<<14142145, 10000000>>)

\* The calls of the tests ScalarWithAnalyticJacobian and
\* ScalarWithNumericalJacobian
SqrtTwoCall ==
  /\ IsNewton /\ args.f = UserRes("sq2") /\ args.x0 = DVec(<<One>>)
  /\ args.maxIter = NewtonTestMaxIter /\ args.tolExp = NewtonDefaultTolExp

\* C19: newton_raphson on x^2 - 2 from x0 = [1] with maxIter = 50 and
\* tol = 1e-10, with the analytic Jacobian or without one, never exhausts
\* maxIter; it returns through the convergence test a value within 1e-6 of
\* sqrt(2).
C19_SquareRootOfTwo ==
  SqrtTwoCall =>
     /\ iter < args.maxIter
     /\ pc = "returned" =>
          /\ Len(ret) = 1
          /\ Lt(Sqrt2Low, ret[1]) /\ Lt(ret[1], Sqrt2High)
          /\ out = <<Converged(iter)>>

\* C19 witness: the call without a Jacobian has returned after at least one
\* iteration
C19_Witness ==
  /\ SqrtTwoCall /\ ~args.useJ /\ pc = "returned"
  /\ iter >= 1 /\ out = <<Converged(iter)>>

\* C20 as claimed: concurrent independent calls write no state that is
\* shared between them: every step of a call changes the locals of that
\* call only, and never the stream std::cout of the process.
C20_NoSharedState == [][out' = out]_vars

(***************************************************************************)
(* Termination.  The user functions of the model return, and a call that   *)
(* has not finished keeps executing: the scheduler of a single-threaded    *)
(* call is the processor itself.  Next is enabled exactly in the states    *)
(* that are not Finished, so the fairness condition below is weak fairness *)
(* of Next, WF_vars(Next), written with ~Finished for ENABLED <<Next>>_vars.*)
(***************************************************************************)
Finished == pc \in {"returned", "threw", "crashed"}

SpecFair == Init /\ [][Next]_vars /\ ([]<>Finished \/ []<><<Next>>_vars)

\* Finished states stutter; with this next-state relation a state without a
\* successor is an unfinished call that cannot take a step
NextOrFinished == Next \/ (Finished /\ UNCHANGED vars)

\* No loop has run past its bound: a stepper has made i <= steps iterations
\* with steps = ceil((t1 - t0) / h), and has made all of them when it
\* returns; newton_raphson has made iter <= maxIter iterations and returns
\* before the bound only through the convergence test; the Newton solve of
\* every step of euler_backward has made at most 100 iterations
LoopsBounded ==
  /\ (IsStepper /\ ValidArgs /\ Running) =>
       /\ IsCeilQuotient(steps, args.t0, args.t1, args.h)
       /\ i <= steps
       /\ Len(t) = steps + 1
       /\ pc = "returned" => i = steps
  /\ IsNewton =>
       /\ iter <= (IF args.maxIter > 0 THEN args.maxIter ELSE 0)
       /\ (pc = "returned" /\ iter < args.maxIter) =>
            /\ out = <<Converged(iter)>>
            /\ TolMet(EvalRes(args.f, ret), args.tolExp)
  /\ (op = "euler_backward" /\ Running) =>
       \A k \in 1..i :
          /\ StepSolve(k).iter <= 100
          /\ StepSolve(k).iter < 100 => StepSolve(k).done

\* C21: every solve terminates at its loop bound.  A stepper called with
\* valid arguments returns after exactly steps = ceil((t1 - t0) / h)
\* iterations, newton_raphson returns after at most maxIter iterations
\* (before maxIter only when the convergence test passes), and each step of
\* euler_backward makes at most 100 Newton iterations.
C21_Terminates ==
  /\ []LoopsBounded
  /\ ((IsStepper /\ ValidArgs) \/ IsNewton) ~> (pc = "returned")

\* C21 witness: euler_backward has returned from two steps whose Newton
\* solves both ran to the bound of 100 iterations without converging
C21_Witness ==
  /\ op = "euler_backward" /\ pc = "returned" /\ i = 2 /\ steps = 2
  /\ \A k \in 1..2 : StepSolve(k).iter = 100 /\ ~StepSolve(k).done

(***************************************************************************)
(* vec_norm                                                                *)
(***************************************************************************)
\* p <= q for finite values, compared without rounding
ExactLe(p, q) == ExactSum(q, Neg(p))[1] >= 0

\* The sum of the squares of the elements of v, without rounding
RECURSIVE ExactSquares(_)
ExactSquares(v) ==
  IF v = <<>> THEN DZero ELSE ExactSum(ExactSquares(SubSeq(v, 1, Len(v) - 1)), ExactProd(v[Len(v)], v[Len(v)]))

\* The sum of the squares of the elements of v in binary64 arithmetic, each
\* square rounded and added, rounded, to the sum of the ones before it
RECURSIVE RoundedSquares(_)
RoundedSquares(v) ==
  IF v = <<>> THEN DZero ELSE Add(RoundedSquares(SubSeq(v, 1, Len(v) - 1)), Mul(v[Len(v)], v[Len(v)]))

AbsVec(v) == [j \in 1..Len(v) |-> Fabs(v[j])]

\* The finite r > 0 is within half a unit in its last place of the square
\* root of the finite s > 0
NearestRoot(r, s) ==
  /\ r[1] = 1 /\ r[3] # <<>> /\ BBitLen(r[3]) = Prec
  /\ ExactLe(ExactProd(<<1, -1, BSub(BShl(r[3], 1), <<1>>), r[4] - 1>>,
                       <<1, -1, BSub(BShl(r[3], 1), <<1>>), r[4] - 1>>), s)
  /\ ExactLe(s, ExactProd(<<1, -1, BAdd(BShl(r[3], 1), <<1>>), r[4] - 1>>,
                          <<1, -1, BAdd(BShl(r[3], 1), <<1>>), r[4] - 1>>))

\* r is the binary64 square root of the binary64 value s
RootOf(r, s) ==
  IF dIsNaN(s) THEN dIsNaN(r)
  ELSE IF dIsZero(s) \/ dIsInf(s) THEN r = s
  ELSE NearestRoot(r, s)

VecNormReturned == op = "vec_norm" /\ pc = "returned"

\* C22 as stated: for a v of finite elements vec_norm(v) is not negative and
\* its square is the sum of the squares of the elements of v; the empty vector
\* gives 0, [3, 4] gives 5, the signs of the elements do not matter and v is
\* not modified.
C22_SquareIsSum ==
  (VecNormReturned /\ \A j \in 1..Len(args.v) : dIsFinite(args.v[j])) =>
    /\ dIsFinite(ret) /\ ret[1] >= 0
    /\ ExactSum(ExactProd(ret, ret), Neg(ExactSquares(AbsVec(args.v)))) = DZero
    /\ args.v = <<>> => ret = DZero
    /\ args.v = DVec(<<R(3), R(4)>>) => ret = DOfRat(R(5))

C22_Returns ==
  VecNormReturned =>
    /\ dIsNaN(ret) \/ ret[1] >= 0
    /\ RootOf(ret, RoundedSquares(AbsVec(args.v)))
    /\ args.v = <<>> => ret = DZero
    /\ args.v = DVec(<<R(3), R(4)>>) => ret = DOfRat(R(5))

\* C22, amended: vec_norm(v) is the binary64 number nearest to the square root
\* of the sum of the squares of the elements of v as binary64 arithmetic gives
\* it, every square and every partial sum rounded, from left to right: it is
\* not negative unless it is NaN, its square can differ from the sum of the
\* squares by the roundings and it is +inf when the sum overflows; the empty
\* vector gives 0, [3, 4] gives 5, the signs of the elements do not matter
\* and v is not modified.
C22_RoundedNorm == []C22_Returns /\ [][op = "vec_norm" => args' = args]_vars

C22_Witness ==
  /\ VecNormReturned
  /\ args.v = DVec(<<One, One>>)
  /\ sum = DOfRat(Two)
  /\ NearestRoot(ret, sum)
  /\ ExactSum(ExactProd(ret, ret), Neg(sum)) # DZero

(***************************************************************************)
(* to_csv                                                                  *)
(***************************************************************************)
\* The lines of a text: the runs of characters that a newline ends, and the
\* run after the last newline when it is not empty
RECURSIVE LinesFrom(_, _)
LinesFrom(text, cur) ==
  IF text = <<>> THEN (IF cur = <<>> THEN <<>> ELSE <<cur>>)
  ELSE IF text[1] = "\n" THEN <<cur>> \o LinesFrom(Tail(text), <<>>)
  ELSE LinesFrom(Tail(text), Append(cur, text[1]))

Lines(text) == LinesFrom(text, <<>>)

\* The fields fs with a comma between each two
RECURSIVE JoinFields(_)
JoinFields(fs) ==
  IF Len(fs) = 1 THEN fs[1] ELSE fs[1] \o <<",">> \o JoinFields(Tail(fs))

\* t,y0,...,y{k-1}
HeaderLine(k) == JoinFields(<<<<"t">>>> \o [j \in 1..k |-> <<"y">> \o Digits(j - 1)])

\* time, then the first k values of row, each as the stream prints a double
SampleLine(time, row, k) == JoinFields(<<Format(time)>> \o [j \in 1..k |-> Format(row[j])])

ToCsvReturned == op = "to_csv" /\ pc = "returned"

\* The destination could not be opened: 1 is returned and nothing was written
NotOpened == ret = 1 /\ file \in FilesBefore(args.filename)

\* What the documentation of to_csv requires of a call: y is not empty, t has
\* the size of y and all the entries of y have the same length
ToCsvDocumented ==
  /\ args.y # <<>>
  /\ Len(args.t) = Len(args.y)
  /\ \A k \in 1..Len(args.y) : Len(args.y[k]) = Len(args.y[1])

C23_Returns ==
  (op = "to_csv" /\ pc \in {"returned", "crashed"}) =>
    IF ~Opens(args.filename) THEN pc = "returned" /\ NotOpened
    ELSE ToCsvDocumented =>
         /\ pc = "returned" /\ ret = 0 /\ file.exists
         /\ Len(Lines(file.text)) = Len(args.y) + 1
         /\ Lines(file.text)[1] = HeaderLine(Len(args.y[1]))
         /\ \A k \in 1..Len(args.y) :
              Lines(file.text)[k + 1] = SampleLine(args.t[k], args.y[k], Len(args.y[1]))

\* C23: to_csv returns 1 and writes nothing when the destination cannot be
\* opened; otherwise, for the t and y its documentation requires, it returns
\* 0 and the file is len(y) + 1 lines, the header t,y0,...,y{k-1} with
\* k = len(y[0]) and then, for each i in order, the line
\* t[i],y[i][0],...,y[i][k-1], each number as a stream prints a double.
C23_HeaderAndSamples ==
  /\ []C23_Returns
  /\ [][(op = "to_csv" /\ ~Opens(args.filename)) => file' = file]_vars

\* The call of the test MultipleRowsAndColumns, and its file
C23_Witness ==
  /\ ToCsvReturned /\ ret = 0 /\ ToCsvDocumented
  /\ Len(args.y) = 3 /\ Len(args.y[1]) = 3 /\ args.t[3] = DOfRat(Two)
  /\ Lines(file.text) = << <<"t", ",", "y", "0", ",", "y", "1", ",", "y", "2">>,
                           <<"0", ",", "1", ",", "2", ",", "3">>,
                           <<"1", ",", "4", ",", "5", ",", "6">>,
                           <<"2", ",", "7", ",", "8", ",", "9">> >>

(***************************************************************************)
(* Partial pivoting                                                        *)
(***************************************************************************)
\* The step taken is one iteration of the forward-elimination loop
ColumnStep == op = "gaussian_elimination" /\ pc = "loop" /\ i' = i + 1

\* row with factor * prow subtracted from its columns c.., factor being
\* row[c] / prow[c]
RowMinus(row, prow, c) ==
  [j \in 1..Len(row) |->
     IF j >= c THEN Sub(row[j], Mul(Div(row[c], prow[c]), prow[j])) ELSE row[j]]

\* Row m of the working matrix is the pivot row of column c: no row of c..n
\* has a larger absolute value in column c, and every row before m a smaller
IsPivotOf(m, c) ==
  /\ \A k \in c..Len(A) : Le(Fabs(A[k][c]), Fabs(A[m][c]))
  /\ \A k \in c..(m - 1) : Lt(Fabs(A[k][c]), Fabs(A[m][c]))

\* The step leaves the rows before c alone, has row m of A and of b at
\* position c, row c at position m, and every row below c at its own
\* position, each of these with the elimination applied
SwappedWith(m, c) ==
  /\ \A k \in 1..(c - 1) : A'[k] = A[k] /\ b'[k] = b[k]
  /\ A'[c] = A[m] /\ b'[c] = b[m]
  /\ \A k \in (c + 1)..Len(A) :
       /\ A'[k] = RowMinus(A[IF k = m THEN c ELSE k], A[m], c)
       /\ b'[k] = Sub(b[IF k = m THEN c ELSE k],
                      Mul(Div(A[IF k = m THEN c ELSE k][c], A[m][c]), b[m]))

PivotStep ==
  (ColumnStep /\ \A k \in (i + 1)..Len(A) : ~IsNaN(A[k][i + 1])) =>
    \E m \in (i + 1)..Len(A) : IsPivotOf(m, i + 1) /\ SwappedWith(m, i + 1)

\* C24: in every iteration of forward elimination the row swapped into
\* position i is the row of i..n-1 with the largest absolute value in column
\* i, the lowest such row on a tie; b is swapped the same way, and no other
\* row changes place (none at all when row i holds the maximum).
C24_PartialPivoting == [][PivotStep]_vars

\* Column 0 of [[1,0,0],[2,1,-1],[-2,1,2]] has its maximum 2 in rows 1 and 2:
\* row 1 went to position 0 and row 0 to position 1
C24_Witness ==
  /\ op = "gaussian_elimination" /\ pc = "loop" /\ i = 1
  /\ args.A = <<<<One, Zero, Zero>>, <<Two, One, R(-1)>>, <<R(-2), One, Two>>>>
  /\ A[1] = args.A[2] /\ b[1] = args.b[2]
  /\ A[2] = RowMinus(args.A[1], args.A[2], 1)
  /\ A[3] = RowMinus(args.A[3], args.A[2], 1)

(***************************************************************************)
(* The Jacobian of a Newton iteration                                      *)
(***************************************************************************)
\* The step taken is a loop body of newton_raphson that did not return
UpdateStep == IsNewton /\ pc = "loop" /\ iter' = iter + 1

\* The calls the step made
CallsOf(tr, tr1) == SubSeq(tr1, Len(tr) + 1, Len(tr1))

\* The Jacobian of the step at xx, from the one source the call has
JacobianAt(xx) ==
  IF args.useJ THEN EvalJac(args.f, xx) ELSE forward_difference(args.f, xx, FDStep)

OneJacobian(calls, xx, negFx) ==
  /\ calls[1] = [fn |-> "f", args |-> <<xx>>]
  /\ calls[Len(calls)] = GaussCall(JacobianAt(xx), negFx)
  /\ IF args.useJ
       THEN /\ calls[2] = [fn |-> "J_f", args |-> <<xx>>]
            /\ Len(calls) = 3
       ELSE /\ calls[2] = [fn |-> "forward_difference", args |-> <<xx, FDStep>>]
            /\ \A k \in 1..Len(calls) : calls[k].fn # "J_f"
            /\ Cardinality({k \in 1..Len(calls) : calls[k].fn = "forward_difference"}) = 1

\* delta = now - before solves J * delta = negFx, whenever the solve gave
\* finite numbers
Solves(Jm, before, now, negFx) ==
  (\A k \in 1..Len(now) : IsFinite(now[k])) => MatVec(Jm, VSub(now, before)) = negFx

JacobianStep ==
  UpdateStep =>
    /\ SubSeq(trace', 1, Len(trace)) = trace
    /\ OneJacobian(CallsOf(trace, trace'), x, VNeg(EvalRes(args.f, x)))
    /\ x' = VAdd(x, gaussian_elimination(JacobianAt(x), VNeg(EvalRes(args.f, x))))
    /\ Solves(JacobianAt(x), x, x', VNeg(EvalRes(args.f, x)))

\* C25: an iteration of newton_raphson that does not return takes its
\* Jacobian from one source: J_f(x) at the current x when J_f was supplied,
\* forward_difference never being called, and forward_difference(f, x) with
\* the step 1e-8 otherwise; it solves J * delta = -f(x) and sets x to x + delta.
C25_JacobianSource == [][JacobianStep]_vars

\* An iteration without J_f, from [0, 0] for f(x) = [x1 - 1, x0 + x1 - 2]:
\* forward_difference was called once, with the default step, J_f never,
\* and x is the root [1, 1]
C25_Witness ==
  /\ IsNewton /\ ~args.useJ /\ iter = 1 /\ pc = "loop"
  /\ args.f = UserRes("aff2") /\ args.x0 = <<Zero, Zero>> /\ x = <<One, One>>
  /\ Cardinality({k \in 1..Len(trace) : trace[k].fn = "forward_difference"
                                         /\ trace[k].args[2] = FDStep}) = 1
  /\ \A k \in 1..Len(trace) : trace[k].fn # "J_f"

(***************************************************************************)
(* A step of euler_backward whose Newton solve does not converge           *)
(***************************************************************************)
\* The solve of the step after k, were it started from the iterate v with v
\* as the previous state
SolveAfter(k, v) ==
  newton_raphson(Closure(args.h, args.f, t[k + 2], v), v, FALSE, 100, 10, <<>>, <<>>)

\* r, the solve of step k, used up its 100 iterations without meeting the
\* tolerance; its last iterate is y[k+1], the step after k starts from it, and
\* the Solution returned holds it
KeptUnconverged(k, r) ==
  /\ r.iter = 100
  /\ y[k + 1] = r.x
  /\ k < i => y[k + 2] = SolveAfter(k, r.x).x
  /\ pc = "returned" =>
       /\ Len(ret.t) = steps + 1 /\ Len(ret.y) = steps + 1
       /\ ret.y[k + 1] = r.x

\* C26: a step of euler_backward whose Newton solve exhausts its iterations
\* without meeting the tolerance does not abort the integration and is not
\* solved again: its last iterate is stored as y[i+1], step i+1 takes it as
\* previous state and initial guess, and the call returns steps + 1 samples.
C26_UnconvergedStepKept ==
  (op = "euler_backward" /\ ValidArgs) =>
    /\ pc # "threw"
    /\ Running =>
         /\ trace = StepTraces(i)
         /\ \A k \in 1..i : \E r \in {StepSolve(k)} : r.done \/ KeptUnconverged(k, r)

\* Two steps of y' = 2y with h = 1/2, where F(x) = -y[i] has no root: both
\* solves ran 100 iterations, and the Solution returned has the three samples
C26_Witness ==
  /\ op = "euler_backward" /\ pc = "returned" /\ steps = 2
  /\ args.f.kind = "cross" /\ args.h = Half
  /\ ~StepSolve(1).done /\ ~StepSolve(2).done
  /\ Len(ret.y) = 3 /\ ret.y[2] = StepSolve(1).x /\ ret.y[3] = SolveAfter(1, ret.y[2]).x
  /\ out = <<>>

(***************************************************************************)
(* Newton on an affine residual                                            *)
(***************************************************************************)
\* f(x) = M * x + c with M nonsingular: x - 3, and [x1 - 1, x0 + x1 - 2]
AffineResidual == args.f.kind \in {"shift3", "aff2"}

\* v is an exact root of the residual of the call
ExactRoot(v) == \A j \in 1..Len(v) : EvalRes(args.f, v)[j] = Zero

\* The vector the call returns with the other choice of Jacobian
OtherJacobianResult ==
  newton_raphson(args.f, args.x0, ~args.useJ, args.maxIter, args.tolExp, <<>>, <<>>).x

\* C27: for an affine residual with a nonsingular matrix and an x0 whose
\* residual norm is not below tol, the first update of newton_raphson gives the
\* exact root, with the analytic and with the forward-difference Jacobian;
\* with maxIter >= 2 the call returns it through the convergence test of
\* iteration 1, and both Jacobian choices return the same vector.
C27_AffineOneUpdate ==
  (IsNewton /\ AffineResidual /\ ~TolMet(EvalRes(args.f, args.x0), args.tolExp)) =>
    /\ iter <= 1
    /\ iter = 1 => ExactRoot(x)
    /\ (pc = "returned" /\ args.maxIter >= 2) =>
         /\ iter = 1 /\ out = <<Converged(1)>>
         /\ ExactRoot(ret)
         /\ ret = OtherJacobianResult

\* From [0, 0] with the forward-difference Jacobian and maxIter = 2 the call
\* returned the root [1, 1] of [x1 - 1, x0 + x1 - 2] on iteration 1
C27_Witness ==
  /\ IsNewton /\ pc = "returned"
  /\ args.f = UserRes("aff2") /\ ~args.useJ /\ args.x0 = <<Zero, Zero>>
  /\ args.maxIter = 2
  /\ iter = 1 /\ ret = <<One, One>> /\ out = <<Converged(1)>>
  /\ ret = OtherJacobianResult

(***************************************************************************)
(* euler_backward on a scalar linear equation                              *)
(*                                                                         *)
(* The calls of euler_backward of Spec, in exact arithmetic, and calls in  *)
(* binary64 arithmetic whose initial value is a power of two below the     *)
(* tolerance 1e-10 of the Newton solve (an exact rational of that size has *)
(* a denominator above the range of the integers).  In these every         *)
(* operation of the call is exact.                                         *)
(***************************************************************************)
TinyCalls ==
  {[op |-> "euler_backward", f |-> [kind |-> c[1]], t0 |-> DZero, t1 |-> DOfRat(c[2]),
    y0 |-> <<DTwoTo(c[3])>>, h |-> DOfRat(c[4])] :
     c \in {"decay", "cross"} \X {Half, One} \X {-34, -40} \X {<<1, 4>>, Half}}

InitLinear ==
  /\ args \in {c \in StepperCalls : c.op = "euler_backward"} \cup TinyCalls
  /\ op = args.op
  /\ pc = "entry"
  /\ exc = "" /\ steps = 0 /\ i = 0 /\ iter = 0
  /\ t = <<>> /\ y = <<>> /\ x = <<>>
  /\ A = <<>> /\ b = <<>> /\ J = <<>> /\ Fx = <<>>
  /\ trace = <<>> /\ out = <<>> /\ ret = <<>>
  /\ sum = Zero /\ file = NoFile
  /\ thr = <<>>

NextBackward ==
  \/ euler_backward_enter
  \/ euler_backward_step
  \/ euler_backward_return

SpecLinear == InitLinear /\ [][NextBackward]_vars

\* The lambda of f(t, y) = [lambda * y[0]], in the arithmetic of the call
Lambda ==
  Num(CASE args.f.kind = "decay" -> -2 [] args.f.kind = "cross" -> 2 [] OTHER -> 0, args.h)

\* 1 - h * lambda
OneMinusHLambda == Sub(Num(1, args.h), Mul(args.h, Lambda))

\* The call integrates a scalar linear equation with 1 - h * lambda # 0
ScalarLinear ==
  /\ op = "euler_backward" /\ ValidArgs /\ Running
  /\ args.f.kind \in {"zero", "decay", "cross"} /\ Len(args.y0) = 1
  /\ ~Same(OneMinusHLambda, Zero)

\* y[k+1][0] * (1 - h * lambda) == y[k][0], without rounding
StepRelation(k) ==
  ExactSum(ExactProd(y[k + 1][1], OneMinusHLambda), Neg(y[k][1])) \in {Zero, DZero}

\* The convergence test passes at the initial guess y[k] of step k
WithinTolerance(k) == NormBelow(EvalRes(StepResidual(k), y[k]), NewtonDefaultTolExp)

\* Step k took one Newton update, which gave y[k+1]
OneUpdate(k, r) == r.iter = 1 /\ r.done /\ y[k + 1] = r.x

\* C28 as stated: for f(t, y) = [lambda * y[0]] with 1 - h * lambda # 0 every
\* step of euler_backward has y[i+1][0] * (1 - h * lambda) == y[i][0] in exact
\* arithmetic, and takes one Newton update when y[i] does not pass the
\* convergence test of the step.
C28_EveryStepImplicit ==
  ScalarLinear =>
    \A k \in 1..i :
      /\ StepRelation(k)
      /\ ~WithinTolerance(k) => OneUpdate(k, StepSolve(k))

\* C28, amended: a step whose y[i] does not pass the convergence test,
\* |h * lambda * y[i][0]| >= 1e-10, takes one Newton update and has
\* y[i+1][0] * (1 - h * lambda) == y[i][0] in exact arithmetic; a step whose
\* y[i] passes it takes no update and stores y[i+1] = y[i], which has the
\* relation only when h * lambda * y[i][0] is 0.
C28_StepImplicitOrKept ==
  ScalarLinear =>
    \A k \in 1..i :
      IF WithinTolerance(k)
        THEN /\ y[k + 1] = y[k]
             /\ StepSolve(k).iter = 0
             /\ StepRelation(k) <=> Same(Mul(Mul(args.h, Lambda), y[k][1]), Zero)
      ELSE OneUpdate(k, StepSolve(k)) /\ StepRelation(k)

\* y' = -2y from y0 = 2^-40 with h = 1/2: both steps kept y0, where the
\* implicit step halves it
C28_Witness ==
  /\ ScalarLinear /\ pc = "returned" /\ steps = 2
  /\ args.f.kind = "decay" /\ args.y0 = <<DTwoTo(-40)>> /\ args.h = DOfRat(Half)
  /\ WithinTolerance(1) /\ ret.y[2] = args.y0 /\ ret.y[3] = args.y0
  /\ ~StepRelation(1)
  /\ out = <<Converged(0), Converged(0)>>

(***************************************************************************)
(* The convergence test comes before the update                            *)
(***************************************************************************)
TestBeforeUpdate ==
  IsNewton =>
    /\ Updates = iter
    /\ out # <<>> =>
         /\ out = <<Converged(iter)>> /\ iter <= args.maxIter - 1
         /\ trace[Len(trace)] = [fn |-> "f", args |-> <<ret>>]
    /\ (pc = "returned" /\ out = <<>>) =>
         /\ iter = (IF args.maxIter > 0 THEN args.maxIter ELSE 0)
         /\ ret = x
         /\ iter > 0 => trace[Len(trace)].fn = "gaussian_elimination"
         /\ iter = 0 => (ret = args.x0 /\ trace = <<>>)

\* A step that reports convergence evaluated f at the current x and nothing
\* else, and returns that x
ReportStep ==
  (IsNewton /\ out' # out) =>
    /\ CallsOf(trace, trace') = <<[fn |-> "f", args |-> <<x>>]>>
    /\ x' = x /\ ret' = x /\ iter' = iter /\ pc' = "returned"

\* C29: in newton_raphson the convergence test of an iteration precedes its
\* update: the iterate of the maxIter-th update is returned without f being
\* evaluated at it, convergence is reported after at most maxIter - 1 updates,
\* a root reached exactly by the last update is returned without a report,
\* and with maxIter <= 0 the call returns x0 without evaluating f.
C29_TestPrecedesUpdate == []TestBeforeUpdate /\ [][ReportStep]_vars

\* f(x) = x - 3 from x0 = 0 with maxIter = 1: the one update gave the root 3,
\* which was returned without a report and without f evaluated at it
C29_Witness ==
  /\ IsNewton /\ pc = "returned"
  /\ args.f = UserRes("shift3") /\ args.x0 = <<Zero>> /\ args.maxIter = 1
  /\ ret = <<R(3)>> /\ ExactRoot(ret)
  /\ out = <<>>
  /\ \A k \in 1..Len(trace) : trace[k].fn = "f" => trace[k].args[1] # ret

(***************************************************************************)
(* The eliminated column                                                   *)
(***************************************************************************)
\* The working matrix of a column step after its swap, before its elimination
AfterSwap == Swap(A, i + 1, PivotRow(A, i + 1))

FiniteNonZero(v) == IsFinite(v) /\ ~Same(v, Zero)

\* The step is a column step whose pivot, after the swap, is finite and not 0
PivotedStep == ColumnStep /\ FiniteNonZero(AfterSwap[i + 1][i + 1])

\* The columns before c of the rows below their diagonal stay zero when they
\* were
EarlierColumnsKept(c) ==
  \A j \in 1..(c - 1) :
    (\A k \in (j + 1)..Len(A) : Same(A[k][j], Zero)) =>
      \A k \in (j + 1)..Len(A) : Same(A'[k][j], Zero)

Eliminated(now, a, p) ==
  /\ Le(Fabs(Div(a, p)), One)
  /\ now = Sub(a, Mul(Div(a, p), p))
  /\ ~DivRounds(a, p) => Same(now, Zero)

====
